---- MODULE Spec2Model ----
(***************************************************************************)
(* Claude account checker: the probe (testSingleModel), the account        *)
(* validator (testAccountDirect / testAccount) and the batch runner        *)
(* (batchTest, saveResults, main) of check-claude-cli-accounts.js, and the *)
(* probe and validator of web-server.js.                                   *)
(*                                                                         *)
(* Node.js runs every handler to completion.  One action of this module is *)
(* one handler (timer callback, child-process event, promise continuation) *)
(* or one step of synchronous code.  Promise continuations are microtasks: *)
(* they run before the next timer or I/O event, which SyncPending states.  *)
(*                                                                         *)
(* The environment (the children, the clock, the order of the events) is   *)
(* "free" for one account: every order of the events.  For a batch of      *)
(* several accounts it is "paced": the events left over for a probe that   *)
(* has resolved (they change nothing the program reads again) and the      *)
(* 'close' of a child that has ended are delivered before other events;   *)
(* the question is written before the child does anything; a child writes  *)
(* to one of its streams and ends at once, with code 1 if and only if it   *)
(* wrote to stderr; a signalled child is silent and ends at once; the      *)
(* webhook accepts the notification.                                       *)
(*                                                                         *)
(* A JavaScript string is a sequence of one-character strings.             *)
(***************************************************************************)
EXTENDS Integers, Sequences, FiniteSets, TLC

\* ------------------------------------------------------------------ bounds

\* The longest account list of a batch run.
MaxAccounts == 3

\* The largest value of options.parallel.
MaxParallel == 2

\* The most chunks batchTest is followed through: more than any list of
\* MaxAccounts accounts needs when every chunk takes an account.
MaxChunks == 4

\* ------------------------------------------------------------- JS strings

Min(x, y) == IF x < y THEN x ELSE y

Max(x, y) == IF x > y THEN x ELSE y

\* String.prototype.includes
Includes(s, pat) ==
    \E k \in 0..(Len(s) - Len(pat)) : SubSeq(s, k + 1, k + Len(pat)) = pat

\* String.prototype.substring(a, b) for 0 <= a <= b
Substring(s, a, b) == SubSeq(s, Min(a, Len(s)) + 1, Min(b, Len(s)))

WhiteSpace == {" ", "\n"}

RECURSIVE TrimStart(_)
TrimStart(s) ==
    IF s /= <<>> /\ Head(s) \in WhiteSpace THEN TrimStart(Tail(s)) ELSE s

RECURSIVE TrimEnd(_)
TrimEnd(s) ==
    IF s /= <<>> /\ s[Len(s)] \in WhiteSpace
    THEN TrimEnd(SubSeq(s, 1, Len(s) - 1))
    ELSE s

\* String.prototype.trim
Trim(s) == TrimEnd(TrimStart(s))

LowerChar(c) ==
    CASE c = "E" -> "e"
      [] c = "R" -> "r"
      [] c = "O" -> "o"
      [] c = "S" -> "s"
      [] c = "N" -> "n"
      [] c = "T" -> "t"
      [] OTHER -> c

\* String.prototype.toLowerCase
ToLowerCase(s) == [k \in 1..Len(s) |-> LowerChar(s[k])]

\* The concatenation of a sequence of sequences (Array.prototype.join('')).
RECURSIVE Flatten(_)
Flatten(ss) == IF ss = <<>> THEN <<>> ELSE Head(ss) \o Flatten(Tail(ss))

\* String.prototype.split(sep) for a one-character separator
RECURSIVE Split(_, _)
Split(s, sep) ==
    IF \A k \in 1..Len(s) : s[k] /= sep
    THEN <<s>>
    ELSE LET k == CHOOSE j \in 1..Len(s) :
                      s[j] = sep /\ \A h \in 1..(j - 1) : s[h] /= sep
         IN  <<SubSeq(s, 1, k - 1)>> \o Split(SubSeq(s, k + 1, Len(s)), sep)

\* The literals the probe searches for.
S_Error == <<"E", "r", "r", "o", "r">>
S_error == <<"e", "r", "r", "o", "r">>
S_sonnet == <<"s", "o", "n", "n", "e", "t">>
S_claude3 == <<"c", "l", "a", "u", "d", "e", "-", "3">>
S_authentication == <<"a", "u", "t", "h", "e", "n", "t", "i", "c", "a", "t", "i", "o", "n">>
S_unauthorized == <<"u", "n", "a", "u", "t", "h", "o", "r", "i", "z", "e", "d">>
S_401 == <<"4", "0", "1">>
S_ratelimit == <<"r", "a", "t", "e", " ", "l", "i", "m", "i", "t">>
S_429 == <<"4", "2", "9">>
S_permission == <<"p", "e", "r", "m", "i", "s", "s", "i", "o", "n">>
S_403 == <<"4", "0", "3">>
S_connection == <<"c", "o", "n", "n", "e", "c", "t", "i", "o", "n">>
S_network == <<"n", "e", "t", "w", "o", "r", "k">>
S_model == <<"m", "o", "d", "e", "l">>
S_notfound == <<"n", "o", "t", " ", "f", "o", "u", "n", "d">>

S_configFile == <<"a", ".", "c", "s", "v">>

\* null, for a field that otherwise holds a string (no string has a
\* four-character element).
Null == <<"null">>

\* NaN: a value that no arithmetic on the program's integers gives.
NaN == 0 - 1000000

\* ------------------------------------------------------------------ state

VARIABLES
    variant,      \* "cli": check-claude-cli-accounts.js; "web": web-server.js;
                  \* "via": testAccountViaCLI called by itself; "sh": the
                  \* shell script; "scripts": start-web.sh and stop-web.sh
    configContent, \* main: the configuration file, as main finds it
    lines,        \* parseCSV: lines
    processEnv,   \* process.env
    env,          \* "free" or "paced": the environment's schedule
    sh,           \* check-claude-cli-simple.sh: the shell's variables;
                  \* start-web.sh, stop-web.sh: the PID file and the server
    argv,         \* process.argv.slice(2)
    options,      \* parseArgs: options
    dingTalk,     \* sendDingTalkNotification / sendDingTalkMessage: the
                  \* call, the webhook request and what the promise gave
    accounts,     \* the input account list (cli) or the requests (web)
    parallel,     \* options.parallel
    mainPc,       \* where main / batchTest stands, or the server's state
    i,            \* batchTest: the chunking loop's index; the shell
                  \* scripts: the line read, the turn of the waiting loop
    chunks,       \* batchTest: chunks
    cur,          \* batchTest: number of chunks the for-of loop has started
    results,      \* batchTest: results
    acct,         \* per account: testAccountDirect's position and overallResult
    probe,        \* per account and model: testSingleModel's closure and child
    calls,        \* per account: how often it was handed to the validator
    finished,     \* the accounts of the latest chunk, in the order their
                  \* validation completed
    csvLatest,    \* the rows of claude-test-results-latest.csv
    reportDir,    \* test-reports: the backup file, the runs that saved there
    exitCode      \* the argument of process.exit, -1 before it

\* What neither a handler nor a step of batchTest changes.
Fixed == <<variant, configContent, lines, processEnv, env, sh, argv, options,
           dingTalk>>

vars == <<Fixed, accounts, parallel, mainPc, i, chunks, cur, results, acct,
          probe, calls, finished, csvLatest, reportDir, exitCode>>

\* The configuration file once main is done with it.
NoConfig == [ext |-> "none"]

\* The value of a variable the environment does not hold (no value of a
\* variable has a nine-character element).
Unset == <<"undefined">>

\* process.env as the program was started: no account's endpoint or key.
AmbientEnv ==
    [PATH |-> <<"/", "b", "i", "n">>, ANTHROPIC_BASE_URL |-> Unset,
     ANTHROPIC_API_URL |-> Unset, ANTHROPIC_API_KEY |-> Unset,
     DINGTALK_WEBHOOK |-> Unset, DINGTALK_SECRET |-> Unset]

\* The environment of a child that was never spawned.
NoEnv ==
    [PATH |-> Unset, ANTHROPIC_BASE_URL |-> Unset,
     ANTHROPIC_API_URL |-> Unset, ANTHROPIC_API_KEY |-> Unset,
     DINGTALK_WEBHOOK |-> Unset, DINGTALK_SECRET |-> Unset]

Digits == <<"1", "2", "3", "4", "5", "6", "7", "8", "9">>

\* account.url and account.key of the account with index a: every account
\* has its own endpoint and its own key; a key is longer than the ten
\* characters the console shows.
Url(a) == <<"u", Digits[a]>>

Key(a) == <<"s", "k", "-", "a", "n", "t", "-", "k", "e", "y", "-", Digits[a]>>

\* const env = {...process.env, ANTHROPIC_BASE_URL: account.url,
\*              ANTHROPIC_API_KEY: account.key}
ChildEnv(a) ==
    [processEnv EXCEPT !.ANTHROPIC_BASE_URL = Url(a),
                       !.ANTHROPIC_API_KEY = Key(a)]

Sonnet4 == "sonnet4"

Opus41 == "opus41"

Models == {Sonnet4, Opus41}

AccountIds == 1..MaxAccounts

\* ------------------------------------------------------- testSingleModel

\* options.timeout (the web server's default is 60000; both are past every
\* speed threshold).
TimeoutMs == 45000

\* The delay of the callback that sends the question.
StdinDelayMs == 1000

\* Date.now() - startTime, as a handler may read it.
ElapsedSamples == {500, 2000, 45000}

DetailLimit == 100

PreviewLimit == 200

\* The exit codes a child ends with; "null" is the code of a child ended by
\* a signal, "-2" the code 'close' carries after a failed spawn (-ENOENT).
ExitCodes == {"0", "1"}

\* What one 'data' event of the child's stdout / stderr may carry.
StdoutChunks == {<<"o", "k">>}

StderrChunks == {<<"4", "0", "1">>}

\* const result = {...}
NewResult(v) ==
    [status |-> "testing", responseTime |-> 0, error |-> Null,
     errorType |-> "undefined", response |-> Null, speed |-> "null",
     actualModel |-> IF v = "cli" THEN "null" ELSE "undefined"]

\* The closure of a testSingleModel call that was never made.
NoProbe ==
    [child |-> "none", signalled |-> FALSE, timer |-> FALSE,
     stdinTimer |-> FALSE, hasResponded |-> FALSE, output |-> <<>>,
     errorOutput |-> <<>>, code |-> "none", result |-> NewResult("cli"),
     resolveCalls |-> 0, settled |-> NewResult("cli"), spawns |-> 0,
     stdin |-> "none", stdinWrites |-> 0, env |-> NoEnv,
     args |-> <<>>]

\* testSingleModel up to the end of the promise executor: spawn, the two
\* timers.  ok: whether the operating system could start the child.
Spawned(v, ok) ==
    [NoProbe EXCEPT !.child = IF ok THEN "running" ELSE "failed",
                    !.timer = TRUE, !.stdinTimer = TRUE, !.stdin = "open",
                    !.result = NewResult(v), !.settled = NewResult(v),
                    !.spawns = 1]

S_modelFlag == <<"-", "-", "m", "o", "d", "e", "l">>

\* 'claude-sonnet-4-20250514' / 'claude-opus-4-1-20250805'
ModelName(m) ==
    IF m = Sonnet4
    THEN <<"c", "l", "a", "u", "d", "e", "-", "s", "o", "n", "n", "e", "t",
           "-", "4", "-", "2", "0", "2", "5", "0", "5", "1", "4">>
    ELSE <<"c", "l", "a", "u", "d", "e", "-", "o", "p", "u", "s", "-", "4",
           "-", "1", "-", "2", "0", "2", "5", "0", "8", "0", "5">>

\* spawn('claude', ['--model', modelName], {env: env, ...}) for account a
SpawnedFor(v, ok, a, m) ==
    [Spawned(v, ok) EXCEPT !.env = ChildEnv(a),
                           !.args = <<S_modelFlag, ModelName(m)>>]

\* resolve(result): the first call settles the promise.
Resolve(pr, r) ==
    [pr EXCEPT !.result = r,
               !.resolveCalls = pr.resolveCalls + 1,
               !.settled = IF pr.resolveCalls = 0 THEN r ELSE pr.settled]

\* A faulty rating, which puts each threshold in the tier below it: the
\* speed tiers (C27) must not survive it.
SpeedTierInclusive(t) ==
    IF t <= 3000 THEN "very-fast"
    ELSE IF t <= 8000 THEN "fast"
    ELSE IF t <= 15000 THEN "slow"
    ELSE "very-slow"

\* The rating of a successful probe by its response time.
SpeedTier(t) ==
    IF t < 3000 THEN "very-fast"
    ELSE IF t < 8000 THEN "fast"
    ELSE IF t < 15000 THEN "slow"
    ELSE "very-slow"

IsSuccess(code, output) ==
    /\ code = "0"
    /\ Len(output) > 0
    /\ ~Includes(output, S_Error)
    /\ ~Includes(output, S_error)

OrEmpty(s, dflt) == IF s = <<>> THEN dflt ELSE s

\* The failure branch of the 'close' handler: errorType and error.
Classify(v, code, combinedError) ==
    IF \/ Includes(combinedError, S_authentication)
       \/ Includes(combinedError, S_unauthorized)
       \/ Includes(combinedError, S_401)
    THEN [errorType |-> "auth-failed", error |-> <<"API key invalid or expired">>]
    ELSE IF Includes(combinedError, S_ratelimit) \/ Includes(combinedError, S_429)
    THEN [errorType |-> "rate-limited", error |-> <<"too many requests">>]
    ELSE IF Includes(combinedError, S_permission) \/ Includes(combinedError, S_403)
    THEN [errorType |-> "forbidden", error |-> <<"no permission for the model">>]
    ELSE IF Includes(combinedError, S_connection) \/ Includes(combinedError, S_network)
    THEN [errorType |-> "network-error", error |-> <<"network connection failed">>]
    ELSE IF v = "web"
    THEN [errorType |-> "unknown",
          error |-> OrEmpty(Substring(combinedError, 0, DetailLimit),
                            <<"unknown error">>)]
    ELSE IF Includes(combinedError, S_model) \/ Includes(combinedError, S_notfound)
    THEN [errorType |-> "model-unavailable", error |-> <<"model does not exist">>]
    ELSE IF code /= "0"
    THEN [errorType |-> "cli-error", error |-> <<"Claude CLI exit code: ", code>>]
    ELSE [errorType |-> "unknown",
          error |-> OrEmpty(Trim(combinedError), <<"no valid response">>)]

\* The result the 'close' handler builds.
CloseResult(v, r, code, output, errorOutput, t) ==
    IF IsSuccess(code, output)
    THEN [r EXCEPT !.responseTime = t,
                   !.status = "success",
                   !.response = Substring(Trim(output), 0, PreviewLimit),
                   !.actualModel =
                       IF v = "cli" /\ (\/ Includes(ToLowerCase(output), S_sonnet)
                                        \/ Includes(ToLowerCase(output), S_claude3))
                       THEN "detected-from-response"
                       ELSE r.actualModel,
                   !.speed = SpeedTier(t)]
    ELSE LET c == Classify(v, code, errorOutput \o output)
         IN [r EXCEPT !.responseTime = t,
                      !.status = "failed",
                      !.errorType = c.errorType,
                      !.error = c.error]

\* A faulty timeout callback, which reports the probe as passed: the
\* sequencing of the two probes (C5) must not survive it.
TimeoutResultAsSuccess(r, t) ==
    [r EXCEPT !.status = "success", !.responseTime = t]

\* The result the timeout callback builds.
TimeoutResult(r, t) ==
    [r EXCEPT !.status = "failed", !.error = <<"response timed out">>,
              !.errorType = "timeout", !.responseTime = t]

\* The result the 'error' handler builds (cli only).
ErrorResult(r, t, message) ==
    [r EXCEPT !.status = "failed", !.responseTime = t,
              !.errorType = "launch-failed",
              !.error = <<"cannot start Claude CLI: ", message>>]

\* A faulty timeout callback, which does not signal the child: the
\* timeout path (C12) must not survive it.
KillNothing(pr) == pr

\* claude.kill(): a signal reaches a child that has not ended.
Kill(pr) == [pr EXCEPT !.signalled = (pr.child = "running") \/ pr.signalled]

\* if (!hasResponded) { claude.kill(); ...; hasResponded = true; resolve(result) }
TimeoutBody(pr, t) ==
    IF ~pr.hasResponded
    THEN Resolve([Kill(pr) EXCEPT !.hasResponded = TRUE],
                 TimeoutResult(pr.result, t))
    ELSE pr

\* A faulty 'close' handler, without "if (hasResponded) return": single
\* resolution (C1) must not survive it.
CloseBodyUnguarded(v, pr, t) ==
    Resolve([pr EXCEPT !.hasResponded = TRUE, !.timer = FALSE],
            CloseResult(v, pr.result, pr.code, pr.output, pr.errorOutput, t))

\* A faulty 'close' handler, without clearTimeout: the cancelling of the
\* timer (C31) must not survive it.
CloseBodyTimerKept(v, pr, t) ==
    IF pr.hasResponded
    THEN pr
    ELSE Resolve([pr EXCEPT !.hasResponded = TRUE],
                 CloseResult(v, pr.result, pr.code, pr.output, pr.errorOutput, t))

\* if (hasResponded) return; hasResponded = true; clearTimeout(...); ...
CloseBody(v, pr, t) ==
    IF pr.hasResponded
    THEN pr
    ELSE Resolve([pr EXCEPT !.hasResponded = TRUE, !.timer = FALSE],
                 CloseResult(v, pr.result, pr.code, pr.output, pr.errorOutput, t))

\* error.message of a spawn that found no claude binary.
SpawnError == "spawn claude ENOENT"

\* A faulty 'error' handler, which does not set hasResponded: the launch
\* failure's result (C14) must not survive the 'close' that follows.
ErrorBodyUnlatched(pr, t) ==
    Resolve([pr EXCEPT !.timer = FALSE], ErrorResult(pr.result, t, SpawnError))

\* if (hasResponded) return; hasResponded = true; clearTimeout(...); ...
ErrorBody(pr, t) ==
    IF pr.hasResponded
    THEN pr
    ELSE Resolve([pr EXCEPT !.hasResponded = TRUE, !.timer = FALSE],
                 ErrorResult(pr.result, t, SpawnError))

\* A probe with no 'error' listener in either program: the batch's
\* survival of a launch failure (C10) must not outlive it.
NoErrorListener(v) == FALSE

\* claude.on('error', ...) is registered: by the cli, not by the web server.
HasErrorListener(v) == v = "cli"

\* The 1000 ms callback: claude.stdin.write(...); claude.stdin.end().  The
\* cli calls them only while the probe is unresolved, the web server always.
\* write() and end() on a stream that is no longer open change nothing.
StdinBody(v, pr) ==
    IF v \in {"web", "via"} \/ ~pr.hasResponded
    THEN [pr EXCEPT !.stdinWrites = @ + 1,
                    !.stdin = IF @ = "open" THEN "ended" ELSE @]
    ELSE pr

\* ----------------------------------------------------- testAccountViaCLI

\* const env = {...process.env, ANTHROPIC_API_URL: account.url,
\*              ANTHROPIC_API_KEY: account.key}
ViaChildEnv(a) ==
    [processEnv EXCEPT !.ANTHROPIC_API_URL = Url(a),
                       !.ANTHROPIC_API_KEY = Key(a)]

\* testAccountViaCLI up to the end of the promise executor: its result has
\* no errorType and no actualModel; spawn('claude', [], {env, timeout}).
ViaSpawned(ok, a) ==
    [Spawned("web", ok) EXCEPT !.env = ViaChildEnv(a)]

ViaSpeedTier(t) ==
    IF t < 3000 THEN "very-fast"
    ELSE IF t < 6000 THEN "fast"
    ELSE IF t < 12000 THEN "slow"
    ELSE "very-slow"

\* The timeout callback: it has no guard.
ViaTimeoutBody(pr, t) ==
    Resolve(Kill(pr),
            [pr.result EXCEPT !.status = "timeout",
                              !.error = <<"response timed out">>,
                              !.responseTime = t])

\* The result the 'close' handler builds.
ViaCloseResult(r, code, output, errorOutput, t) ==
    IF code = "0" /\ Len(output) > 0
    THEN [r EXCEPT !.responseTime = t, !.status = "success",
                   !.response = Substring(output, 0, PreviewLimit),
                   !.speed = ViaSpeedTier(t)]
    ELSE [r EXCEPT !.responseTime = t, !.status = "failed",
                   !.error = OrEmpty(errorOutput, <<"no response">>)]

\* The 'close' handler: clearTimeout(timeout), then the result, whether or
\* not the timeout callback has resolved already.
ViaCloseBody(pr, t) ==
    Resolve([pr EXCEPT !.timer = FALSE],
            ViaCloseResult(pr.result, pr.code, pr.output, pr.errorOutput, t))

\* ------------------------------------- testAccountDirect / testAccount

\* overallResult before the first probe has resolved.  sonnet4 and opus41
\* say what the field refers to: "null", "probe" (the result object of the
\* probe of that model) or "skipped" (the literal of the else branch).
NewAccount ==
    [pc |-> "idle", sonnet4 |-> "null", opus41 |-> "null",
     overallStatus |-> "testing"]

\* The literal assigned to opus41 when Sonnet 4 failed.
SkippedResult(v) ==
    [status |-> "skipped", responseTime |-> 0,
     error |-> <<"Sonnet 4 failed, test skipped">>,
     errorType |-> IF v = "cli" THEN "skipped" ELSE "undefined",
     response |-> Null, speed |-> "null", actualModel |-> "undefined"]

NullResult == [SkippedResult("web") EXCEPT !.status = "null", !.error = Null]

\* overallResult.sonnet4 / overallResult.opus41 of account a.
ProbeOf(a, m) ==
    LET ref == IF m = Sonnet4 THEN acct[a].sonnet4 ELSE acct[a].opus41
    IN  CASE ref = "probe" -> probe[a][m].result
          [] ref = "skipped" -> SkippedResult(variant)
          [] OTHER -> NullResult

\* The promise of testSingleModel(a, m) is settled.
Settled(a, m) == probe[a][m].resolveCalls > 0

\* The await of account a can continue.
Resumable(a) == acct[a].pc \in Models /\ Settled(a, acct[a].pc)

\* A faulty join, which continues with the first validation that completes
\* (Promise.race): the order of the chunks (C7) must not survive it.
ChunkDoneAny == \E k \in 1..Len(chunks[cur]) : acct[chunks[cur][k]].pc = "done"

\* Promise.all of the running chunk can continue.
ChunkDone == \A k \in 1..Len(chunks[cur]) : acct[chunks[cur][k]].pc = "done"

\* Synchronous code or a promise continuation is ready: it runs before any
\* timer or I/O event.
SyncPending ==
    \/ mainPc \in {"chunking", "loop", "report"}
    \/ mainPc = "notify" /\ dingTalk.pc \in {"idle", "done"} /\ env = "free"
    \/ mainPc = "await" /\ ChunkDone
    \/ \E a \in AccountIds : Resumable(a)

\* The process is alive and its event loop may run a timer or an I/O event.
EventLoop == ~SyncPending /\ mainPc \notin {"exit", "crashed"}

\* The call testAccountDirect(a) up to its first await: the accounts of S
\* are handed to the validator, oks[a] tells whether a's child could start.
Validate(S, oks) ==
    /\ acct' = [a \in AccountIds |->
                  IF a \in S THEN [NewAccount EXCEPT !.pc = Sonnet4] ELSE acct[a]]
    /\ probe' = [a \in AccountIds |->
                  IF a \in S
                  THEN [m \in Models |->
                          IF m = Sonnet4
                          THEN SpawnedFor(variant, oks[a], a, m)
                          ELSE NoProbe]
                  ELSE probe[a]]
    /\ calls' = [a \in AccountIds |-> IF a \in S THEN calls[a] + 1 ELSE calls[a]]

\* A faulty validator, which tests Opus 4.1 whatever Sonnet 4 gave: the
\* skip rule (C3) must not survive it.
SonnetSucceededAlways(a) == TRUE

\* overallResult.sonnet4.status === 'success'
SonnetSucceeded(a) == probe[a][Sonnet4].result.status = "success"

\* A faulty validator, which reports both models whatever Opus 4.1 gave:
\* the table of overallStatus (C4) must not survive it.
OverallStatusFlat(opusStatus) == "both_success"

\* overallStatus after the Opus 4.1 probe
OverallStatus(opusStatus) ==
    IF opusStatus = "success" THEN "both_success" ELSE "sonnet_only"

\* After "await testSingleModel(account, sonnet)".
ResumeSonnet(a) ==
    /\ acct[a].pc = Sonnet4
    /\ Settled(a, Sonnet4)
    /\ IF SonnetSucceeded(a)
       THEN /\ \E ok \in BOOLEAN :
                  probe' = [probe EXCEPT ![a][Opus41] =
                                        SpawnedFor(variant, ok, a, Opus41)]
            /\ acct' = [acct EXCEPT ![a].sonnet4 = "probe", ![a].pc = Opus41]
            /\ UNCHANGED finished
       ELSE /\ acct' = [acct EXCEPT ![a].sonnet4 = "probe",
                                    ![a].opus41 = "skipped",
                                    ![a].overallStatus = "both_failed",
                                    ![a].pc = "done"]
            /\ finished' = Append(finished, a)
            /\ UNCHANGED probe
    /\ UNCHANGED <<Fixed, accounts, parallel, mainPc, i, chunks, cur, results,
                   calls, csvLatest, reportDir, exitCode>>

\* After "await testSingleModel(account, opus)".
ResumeOpus(a) ==
    /\ acct[a].pc = Opus41
    /\ Settled(a, Opus41)
    /\ acct' = [acct EXCEPT ![a].opus41 = "probe",
                            ![a].overallStatus =
                                OverallStatus(probe[a][Opus41].result.status),
                            ![a].pc = "done"]
    /\ finished' = Append(finished, a)
    /\ UNCHANGED <<Fixed, accounts, parallel, mainPc, i, chunks, cur, results,
                   probe, calls, csvLatest, reportDir, exitCode>>

\* ------------------------------------------------ child and timer events

Others == <<Fixed, accounts, parallel, mainPc, i, chunks, cur, results,
            acct, calls, finished, csvLatest, reportDir, exitCode>>

\* A failed spawn is reported through process.nextTick: the 'error' event
\* comes before every timer and I/O event.
TickPending == \E a \in AccountIds, m \in Models : probe[a][m].child = "failed"

\* The exit of a child that was signalled or has written is due.
ExitDue(a, m) ==
    /\ probe[a][m].child = "running"
    /\ \/ probe[a][m].signalled
       \/ probe[a][m].output /= <<>>
       \/ probe[a][m].errorOutput /= <<>>

\* An event the paced environment delivers first is due: the question of a
\* probe, the 'close' of an ended child, the exit of a child that was
\* signalled or has written.
Draining ==
    \E a \in AccountIds, m \in Models :
        \/ probe[a][m].stdinTimer
        \/ probe[a][m].child \in {"exited", "errored"}
        \/ ExitDue(a, m)

\* The environment may deliver a timer or I/O event now; first tells
\* whether the event is one the paced environment delivers first.
Deliverable(first) ==
    /\ EventLoop
    /\ ~TickPending
    /\ env = "free" \/ first \/ ~Draining

\* Date.now() - startTime when 'close' or 'error' of probe pr is handled:
\* less than the delay of a timer that is still to run.
Elapsed(pr) ==
    IF pr.stdinTimer THEN {e \in ElapsedSamples : e < StdinDelayMs}
    ELSE IF env = "free" THEN {e \in ElapsedSamples : e >= StdinDelayMs}
    ELSE {2000}

\* Date.now() - startTime when the timeout callback runs.
ElapsedLate == {e \in ElapsedSamples : e >= TimeoutMs}

\* Once 'close' has run, no handler is left that reads the child object,
\* the buffers or the exit code of the closure: they are garbage.
Collected(pr) ==
    [pr EXCEPT !.child = "closed", !.signalled = FALSE, !.output = <<>>,
               !.errorOutput = <<>>, !.code = "none"]

\* claude.stdout.on('data'): the stream's content arrives as one chunk.
OnStdoutData(a, m) ==
    /\ Deliverable(FALSE)
    /\ probe[a][m].child = "running"
    /\ env = "paced" => ~probe[a][m].signalled /\ probe[a][m].errorOutput = <<>>
    /\ probe[a][m].output = <<>>
    /\ \E d \in StdoutChunks :
          probe' = [probe EXCEPT ![a][m].output = @ \o d]
    /\ UNCHANGED Others

\* claude.stderr.on('data')
OnStderrData(a, m) ==
    /\ Deliverable(FALSE)
    /\ probe[a][m].child = "running"
    /\ env = "paced" => ~probe[a][m].signalled /\ probe[a][m].output = <<>>
    /\ probe[a][m].errorOutput = <<>>
    /\ \E d \in StderrChunks :
          probe' = [probe EXCEPT ![a][m].errorOutput = @ \o d]
    /\ UNCHANGED Others

\* The codes the child can end with.
ChildCodes(pr) ==
    IF env = "free"
    THEN ExitCodes \cup (IF pr.signalled THEN {"null"} ELSE {})
    ELSE IF pr.signalled THEN {"null"}
    ELSE IF pr.errorOutput /= <<>> THEN {"1"}
    ELSE IF pr.output /= <<>> THEN {"0"}
    ELSE {}

\* The child ends: by itself with an exit code, or by the signal of kill().
\* Node destroys the child's stdin when it sees the exit.
ChildExit(a, m) ==
    /\ Deliverable(ExitDue(a, m))
    /\ probe[a][m].child = "running"
    /\ \E c \in ChildCodes(probe[a][m]) :
          probe' = [probe EXCEPT ![a][m].child = "exited", ![a][m].code = c,
                                 ![a][m].stdin = "destroyed"]
    /\ UNCHANGED Others

\* claude.on('close'): after the child has ended, or after its failed
\* spawn was reported.
OnCloseAt(a, m, t) ==
    /\ Deliverable(TRUE)
    /\ probe[a][m].child \in {"exited", "errored"}
    /\ probe' = [probe EXCEPT
                   ![a][m] = Collected(IF variant = "via"
                                       THEN ViaCloseBody(@, t)
                                       ELSE CloseBody(variant, @, t))]
    /\ UNCHANGED Others

OnClose(a, m) == \E t \in Elapsed(probe[a][m]) : OnCloseAt(a, m, t)

\* The child could not be started and the child object emits 'error'.  The
\* cli listens for it; the web server registers no listener, so the error
\* is thrown out of emit() and ends the server process.
OnError(a, m) ==
    /\ EventLoop
    /\ probe[a][m].child = "failed"
    /\ IF HasErrorListener(variant)
       THEN /\ \E t \in Elapsed(probe[a][m]) :
                  probe' = [probe EXCEPT
                              ![a][m] = [ErrorBody(@, t) EXCEPT
                                           !.child = "errored", !.code = "-2",
                                           !.stdin = "destroyed"]]
            /\ UNCHANGED mainPc
       ELSE /\ mainPc' = "crashed"
            /\ UNCHANGED probe
    /\ UNCHANGED <<Fixed, accounts, parallel, i, chunks, cur, results,
                   acct, calls, finished, csvLatest, reportDir, exitCode>>

\* The callback of setTimeout(..., options.timeout): timers run in the
\* order of their delays, the 1000 ms callback first.
OnTimeout(a, m) ==
    /\ Deliverable(FALSE)
    /\ probe[a][m].timer
    /\ StdinDelayMs < TimeoutMs => ~probe[a][m].stdinTimer
    /\ \E t \in ElapsedLate :
          probe' = [probe EXCEPT
                      ![a][m] = [(IF variant = "via" THEN ViaTimeoutBody(@, t)
                                  ELSE TimeoutBody(@, t))
                                     EXCEPT !.timer = FALSE]]
    /\ UNCHANGED Others

\* The callback of setTimeout(..., 1000) that sends the question.
OnStdinTimer(a, m) ==
    /\ Deliverable(TRUE)
    /\ probe[a][m].stdinTimer
    /\ probe' = [probe EXCEPT
                   ![a][m] = [StdinBody(variant, @) EXCEPT !.stdinTimer = FALSE]]
    /\ UNCHANGED Others

\* ------------------------------------------------------------- batchTest

\* A faulty slice, which takes the element at end as well: the partition
\* into chunks (C9) must not survive it.
SliceInclusive(s, start, end) ==
    SubSeq(s, Min(start, Len(s)) + 1, Min(end + 1, Len(s)))

\* Array.prototype.slice(start, end)
Slice(s, start, end) ==
    LET rel(k) == IF k = NaN THEN 0
                  ELSE IF k < 0 THEN Max(Len(s) + k, 0) ELSE Min(k, Len(s))
    IN  SubSeq(s, rel(start) + 1, rel(end))

\* A faulty collection, which takes the results as the validations complete
\* (push on completion): the order of the report (C8) must not survive it.
ChunkResultsByCompletion(chunk) == finished

\* What Promise.all hands back for a chunk: the overallResult of each
\* account, at the position of its promise.
ChunkResults(chunk) == [k \in 1..Len(chunk) |-> chunk[k]]

\* x + y and x < y of two numbers, each an integer or NaN
JsAdd(x, y) == IF x = NaN \/ y = NaN THEN NaN ELSE x + y

JsLess(x, y) == x /= NaN /\ y /= NaN /\ x < y

\* for (let i = 0; i < accounts.length; i += options.parallel)
BuildChunk ==
    /\ mainPc = "chunking"
    /\ JsLess(i, Len(accounts))
    /\ Len(chunks) < MaxChunks
    /\ chunks' = Append(chunks, Slice(accounts, i, JsAdd(i, parallel)))
    /\ i' = JsAdd(i, parallel)
    /\ UNCHANGED <<Fixed, accounts, parallel, mainPc, cur, results, acct,
                   probe, calls, finished, csvLatest, reportDir, exitCode>>

BuildDone ==
    /\ mainPc = "chunking"
    /\ ~JsLess(i, Len(accounts))
    /\ mainPc' = "loop"
    /\ UNCHANGED <<Fixed, accounts, parallel, i, chunks, cur, results, acct,
                   probe, calls, finished, csvLatest, reportDir, exitCode>>

\* for (const chunk of chunks): chunk.map(account => testAccountDirect(...))
ChunkStart ==
    /\ mainPc = "loop"
    /\ cur < Len(chunks)
    /\ cur' = cur + 1
    /\ mainPc' = "await"
    /\ LET S == {chunks[cur + 1][k] : k \in 1..Len(chunks[cur + 1])}
       IN  \E oks \in [S -> BOOLEAN] : Validate(S, oks)
    /\ finished' = <<>>
    /\ UNCHANGED <<Fixed, accounts, parallel, i, chunks, results,
                   csvLatest, reportDir, exitCode>>

\* After "await Promise.all(...)": results.push(...chunkResults)
ChunkJoin ==
    /\ mainPc = "await"
    /\ ChunkDone
    /\ results' = results \o ChunkResults(chunks[cur])
    /\ mainPc' = "loop"
    /\ UNCHANGED <<Fixed, accounts, parallel, i, chunks, cur, acct, probe,
                   calls, finished, csvLatest, reportDir, exitCode>>

\* return results
BatchReturn ==
    /\ mainPc = "loop"
    /\ cur = Len(chunks)
    /\ mainPc' = "report"
    /\ UNCHANGED <<Fixed, accounts, parallel, i, chunks, cur, results, acct,
                   probe, calls, finished, csvLatest, reportDir, exitCode>>

\* ------------------------------------- generateReport, saveResults, main

\* A faulty count, which takes an account that supports both models for
\* every status: the sums of the summary (C26) must not survive it.
CountStatusOrBoth(rs, st) ==
    Cardinality({k \in 1..Len(rs) :
                    acct[rs[k]].overallStatus \in {st, "both_success"}})

\* results.filter(r => r.overallStatus === st).length
CountStatus(rs, st) ==
    Cardinality({k \in 1..Len(rs) : acct[rs[k]].overallStatus = st})

\* results.filter(r => r.sonnet4.status === 'success').length, and the
\* same for opus41
ModelSuccess(rs, m) ==
    Cardinality({k \in 1..Len(rs) : ProbeOf(rs[k], m).status = "success"})

\* parseArgs: the webhook baked into the source (its access token left
\* out), one given by the caller, one of the environment, one that is not
\* a URL; no webhook at all.
DefaultWebhook == <<"h", "t", "t", "p", "s", ":", "/", "/", "d", "e", "f">>

GivenWebhook == <<"h", "t", "t", "p", "s", ":", "/", "/", "a", "r", "g">>

EnvWebhook == <<"h", "t", "t", "p", "s", ":", "/", "/", "e", "n", "v">>

MalformedWebhook == <<"n", "o", " ", "u", "r", "l">>

NoWebhook == Null

\* parseArgs: const options = {...}
DefaultOptions ==
    [configFile |-> Null, timeout |-> TimeoutMs, parallel |-> 1,
     verbose |-> FALSE, dingTalkWebhook |-> DefaultWebhook,
     dingTalkSecret |-> Null, dingTalkAtAll |-> FALSE,
     dingTalkAlways |-> FALSE]

\* The options of a run of one account.
OptionSamples ==
    {[DefaultOptions EXCEPT !.configFile = S_configFile,
                            !.dingTalkWebhook = w, !.dingTalkAlways = always,
                            !.dingTalkAtAll = always]
        : w \in {DefaultWebhook, MalformedWebhook}, always \in BOOLEAN}

\* sendDingTalkNotification was not called.  result: what the promise of
\* sendDingTalkMessage resolved with.
NoDingTalk ==
    [pc |-> "idle", calls |-> 0, requests |-> 0, url |-> Null,
     message |-> "none",
     result |-> [success |-> TRUE, error |-> "none"]]

\* generateReport: stats
Stats(rs) ==
    [total |-> Len(rs),
     both_success |-> CountStatus(rs, "both_success"),
     sonnet_only |-> CountStatus(rs, "sonnet_only"),
     both_failed |-> CountStatus(rs, "both_failed")]

\* overallResult.key: account.key.substring(0, 10) + '...'
KeyShown(a) == Substring(Key(a), 0, 10) \o <<".", ".", ".">>

\* overallResult.fullKey
FullKey(a) == Key(a)

\* saveResults: one row of the CSV file
CsvRow(a) ==
    [name |-> a, url |-> Url(a), key |-> FullKey(a),
     sonnet4 |-> IF ProbeOf(a, Sonnet4).status = "success" THEN "pass" ELSE "fail",
     opus4 |-> IF ProbeOf(a, Opus41).status = "success" THEN "pass"
               ELSE IF ProbeOf(a, Opus41).status = "skipped" THEN "skipped"
               ELSE "fail"]

\* saveResults: csvRows
CsvRows(rs) == [k \in 1..Len(rs) |-> CsvRow(rs[k])]

\* The most runs of the script that are followed.
MaxRuns == 3

\* The directory test-reports before the first run: no latest file, no
\* backup file.  latest and backup tell whether the file exists, stamp and
\* backupStamp which run wrote the content (its "generated at" line),
\* backupRows the rows of the backup file.
NoReports ==
    [latest |-> FALSE, stamp |-> 0, backup |-> FALSE, backupStamp |-> 0,
     backupRows |-> <<>>, runs |-> 0]

\* A faulty backup, which copies the rows that are about to be written:
\* the content of the backup (C32) must not survive it.
BackedUpNew(dir, rows, new) ==
    [dir EXCEPT !.backup = TRUE, !.backupStamp = dir.runs + 1,
                !.backupRows = new]

\* fs.copyFileSync(csvPath, backupPath) when it succeeds
BackedUp(dir, rows, new) ==
    [dir EXCEPT !.backup = TRUE, !.backupStamp = dir.stamp,
                !.backupRows = rows]

\* saveResults: the backup of an existing latest file, where copyFileSync
\* may throw (the error is caught and printed), then writeFileSync.
SaveResults(rs) ==
    /\ \E copied \in IF reportDir.latest THEN BOOLEAN ELSE {FALSE} :
          reportDir' =
              [(IF copied THEN BackedUp(reportDir, csvLatest, CsvRows(rs))
                ELSE reportDir)
                  EXCEPT !.latest = TRUE, !.stamp = reportDir.runs + 1,
                         !.runs = reportDir.runs + 1]
    /\ csvLatest' = CsvRows(rs)

\* main after batchTest: generateReport(results); saveResults(results, stats)
MainReport ==
    /\ mainPc = "report"
    /\ SaveResults(results)
    /\ mainPc' = "notify"
    /\ UNCHANGED <<Fixed, accounts, parallel, i, chunks, cur, results, acct,
                   probe, calls, finished, exitCode>>

\* What main changes neither when it notifies nor when it exits.
Kept == <<variant, configContent, lines, processEnv, env, sh, argv, options,
          accounts, parallel, i, chunks, cur, results, acct, probe, calls,
          finished, csvLatest, reportDir>>

\* results.filter(r => r.overallStatus === st)
WithStatus(rs, st) == SelectSeq(rs, LAMBDA a : acct[a].overallStatus = st)

\* shouldAlertForSonnetOnly
ShouldAlertForSonnetOnly(stats) ==
    IF stats.sonnet_only = 0 THEN FALSE
    ELSE IF stats.both_failed > 0 THEN TRUE
    ELSE TRUE

\* sendDingTalkNotification: hasFailures
HasFailures(stats) == stats.both_failed > 0 \/ ShouldAlertForSonnetOnly(stats)

\* A faulty decision, which sends whatever the results are: the rule of the
\* notification (C22) must not survive it.
ShouldSendAlways(opts, stats) == TRUE

\* sendDingTalkNotification: shouldSend
ShouldSend(opts, stats) == opts.dingTalkAlways \/ HasFailures(stats)

\* acc.sonnet4.error ? acc.sonnet4.error.substring(0, 30) : (unknown)
ErrorMsg(error) == IF error = Null THEN Null ELSE Substring(error, 0, 30)

\* buildNotificationMessage, and message.at
Message(rs, stats, opts) ==
    LET bothFailedAccounts == WithStatus(rs, "both_failed")
        sonnetOnlyAccounts == WithStatus(rs, "sonnet_only")
    IN  [title |-> IF bothFailedAccounts = <<>> /\ sonnetOnlyAccounts = <<>>
                   THEN "all passed" ELSE "alert",
         total |-> stats.total,
         both_success |-> stats.both_success,
         bothFailed |-> [k \in 1..Min(Len(bothFailedAccounts), 10) |->
                           [name |-> bothFailedAccounts[k],
                            url |-> Url(bothFailedAccounts[k]),
                            errorMsg |-> ErrorMsg(ProbeOf(bothFailedAccounts[k],
                                                          Sonnet4).error)]],
         sonnetOnly |-> [k \in 1..Min(Len(sonnetOnlyAccounts), 10) |->
                           [name |-> sonnetOnlyAccounts[k],
                            errorMsg |-> ErrorMsg(ProbeOf(sonnetOnlyAccounts[k],
                                                          Opus41).error)]],
         isAtAll |-> opts.dingTalkAtAll /\ stats.both_failed > 0]

\* new URL(url) does not throw: the text has a scheme.
ValidUrl(url) == Includes(url, <<":", "/", "/">>)

\* sendDingTalkNotification up to its await, with the promise executor of
\* sendDingTalkMessage: no webhook, nothing to tell, a URL that does not
\* parse (the catch resolves at once), or the request is written.
MainNotify ==
    /\ mainPc = "notify"
    /\ dingTalk.pc = "idle"
    /\ env = "paced" => ~Draining
    /\ LET stats == Stats(results)
       IN  IF options.dingTalkWebhook = NoWebhook
           THEN dingTalk' = [dingTalk EXCEPT !.pc = "done"]
           ELSE IF ~ShouldSend(options, stats)
           THEN dingTalk' = [dingTalk EXCEPT !.pc = "done"]
           ELSE IF ~ValidUrl(options.dingTalkWebhook)
           THEN dingTalk' = [dingTalk EXCEPT
                               !.pc = "done", !.calls = @ + 1,
                               !.message = Message(results, stats, options),
                               !.result = [success |-> FALSE, error |-> "build"]]
           ELSE dingTalk' = [dingTalk EXCEPT
                               !.pc = "sending", !.calls = @ + 1,
                               !.requests = @ + 1,
                               !.url = options.dingTalkWebhook,
                               !.message = Message(results, stats, options)]
    /\ UNCHANGED <<Kept, mainPc, exitCode>>

\* What the webhook may answer: errcode 0, another errcode, no JSON.  The
\* paced environment's webhook accepts the message.
ResponseSamples ==
    IF env = "free" THEN {"errcode 0", "errcode 310000", "not JSON"}
    ELSE {"errcode 0"}

\* A faulty sendDingTalkMessage, which settles its promise only when the
\* webhook accepted the message: a failed delivery (C23) would hold the run.
ResolvedOnSuccess(result) ==
    [dingTalk EXCEPT !.pc = IF result.success THEN "done" ELSE "failed",
                     !.result = result]

\* resolve(...) of sendDingTalkMessage
Resolved(result) == [dingTalk EXCEPT !.pc = "done", !.result = result]

\* The request is in flight and an event of it may be delivered.
InFlight ==
    /\ mainPc = "notify"
    /\ dingTalk.pc = "sending"
    /\ env = "paced" => ~Draining
    /\ ~\E a \in AccountIds : Resumable(a)

\* res.on('end'): JSON.parse(data), response.errcode === 0
OnResponseEnd ==
    /\ InFlight
    /\ \E data \in ResponseSamples :
          dingTalk' = Resolved(CASE data = "errcode 0" ->
                                      [success |-> TRUE, error |-> "none"]
                                 [] data = "errcode 310000" ->
                                      [success |-> FALSE, error |-> "errmsg"]
                                 [] OTHER ->
                                      [success |-> FALSE, error |-> "parse"])
    /\ UNCHANGED <<Kept, mainPc, exitCode>>

\* req.on('error')
OnRequestError ==
    /\ InFlight
    /\ env = "free"
    /\ dingTalk' = Resolved([success |-> FALSE, error |-> "network"])
    /\ UNCHANGED <<Kept, mainPc, exitCode>>

\* req.on('timeout'): req.destroy(), resolve
OnRequestTimeout ==
    /\ InFlight
    /\ env = "free"
    /\ dingTalk' = Resolved([success |-> FALSE, error |-> "timeout"])
    /\ UNCHANGED <<Kept, mainPc, exitCode>>

\* A faulty exit, which tells the caller that the delivery failed: the
\* independence of the exit status (C21, C23) must not survive it.
ExitStatusWithDelivery(stats) ==
    IF stats.both_failed > 0 \/ ~dingTalk.result.success THEN 1 ELSE 0

\* stats.both_failed > 0 ? 1 : 0
ExitStatus(stats) == IF stats.both_failed > 0 THEN 1 ELSE 0

\* After "await sendDingTalkNotification(...)": process.exit(...)
MainExit ==
    /\ mainPc = "notify"
    /\ dingTalk.pc = "done"
    /\ env = "paced" => ~Draining
    /\ exitCode' = ExitStatus(Stats(results))
    /\ mainPc' = "exit"
    /\ UNCHANGED <<Kept, dingTalk>>

\* ------------------------------------------------- main: reading accounts

\* The most data lines of a CSV file, the most records of a JSON file.
MaxLines == 3

\* The data lines a CSV file is made of: a full record, a record without
\* key, a record with an empty url, a blank line, a padded record, a record
\* with a fourth field.
LineSamples ==
    { <<"n", ",", "u", ",", "k">>,
      <<"n", ",", "u">>,
      <<"n", ",", ",", "k">>,
      <<" ">>,
      <<" ", "n", ",", " ", "u", " ", ",", "k", " ">>,
      <<"n", ",", "u", ",", "k", ",", "x">> }

\* A CSV file: the title line, then the data lines.
CsvText(ls) ==
    <<"h">> \o Flatten([k \in 1..Len(ls) |-> <<"\n">> \o ls[k]])

\* The records of a JSON file: a full one, and one without each field.
RecordSamples ==
    { [name |-> <<"n">>, url |-> <<"u">>, key |-> <<"k">>],
      [name |-> <<>>, url |-> <<"u">>, key |-> <<"k">>],
      [name |-> <<"n">>, url |-> <<>>, key |-> <<"k">>],
      [name |-> <<"n">>, url |-> <<"u">>, key |-> <<>>] }

SeqsUpTo(S, n) == UNION {[1..k -> S] : k \in 0..n}

\* The configuration files main may find: none or an unreadable one, a CSV
\* file, a JSON file that does not parse, one that holds an object, one
\* that holds an array of records.
ConfigFiles ==
    {[ext |-> "missing"], [ext |-> "unreadable"]}
    \cup {[ext |-> ".csv", text |-> CsvText(ls)] :
             ls \in SeqsUpTo(LineSamples, MaxLines)}
    \cup {[ext |-> ".json", parse |-> p, value |-> <<>>] :
             p \in {"throws", "object"}}
    \cup {[ext |-> ".json", parse |-> "array", value |-> v] :
             v \in SeqsUpTo(RecordSamples, MaxLines)}

\* process.exit(1)
ExitOne ==
    /\ exitCode' = 1
    /\ mainPc' = "exit"

BatchState == <<variant, processEnv, env, sh, argv, options, dingTalk,
                parallel, chunks, cur, results, acct,
                probe, calls, finished, csvLatest, reportDir>>

\* main: existsSync, readFileSync, then parseCSV up to its loop, or
\* JSON.parse.  An exception of readFileSync ends in the catch of main.
MainRead ==
    /\ mainPc = "main"
    /\ CASE configContent.ext \in {"missing", "unreadable"} ->
              ExitOne /\ UNCHANGED <<lines, i, accounts>>
         [] configContent.ext = ".csv" ->
              /\ lines' = Split(Trim(configContent.text), "\n")
              /\ i' = 1
              /\ accounts' = <<>>
              /\ mainPc' = "parseCSV"
              /\ UNCHANGED exitCode
         [] configContent.ext = ".json" ->
              IF configContent.parse = "throws"
              THEN ExitOne /\ UNCHANGED <<lines, i, accounts>>
              ELSE /\ accounts' = configContent.value
                   /\ mainPc' = "validate"
                   /\ UNCHANGED <<lines, i, exitCode>>
    /\ UNCHANGED <<configContent, BatchState>>

\* parseCSV: one turn of "for (let i = 1; i < lines.length; i++)"
ParseLine ==
    /\ mainPc = "parseCSV"
    /\ i < Len(lines)
    /\ LET line == Trim(lines[i + 1])
           parts == Split(line, ",")
       IN  accounts' =
               IF line /= <<>> /\ Len(parts) >= 3
               THEN Append(accounts, [name |-> Trim(parts[1]),
                                      url |-> Trim(parts[2]),
                                      key |-> Trim(parts[3])])
               ELSE accounts
    /\ i' = i + 1
    /\ UNCHANGED <<configContent, lines, mainPc, exitCode, BatchState>>

\* parseCSV returns; main: if (accounts.length === 0) process.exit(1)
ParseDone ==
    /\ mainPc = "parseCSV"
    /\ ~(i < Len(lines))
    /\ IF Len(accounts) = 0
       THEN ExitOne
       ELSE mainPc' = "validate" /\ UNCHANGED exitCode
    /\ UNCHANGED <<configContent, lines, i, accounts, BatchState>>

\* !account.name || !account.url || !account.key
Incomplete(account) ==
    account.name = <<>> \/ account.url = <<>> \/ account.key = <<>>

\* Array.isArray(accounts): parseCSV gives an array, JSON.parse may not.
IsArray == configContent.ext = ".json" => configContent.parse = "array"

\* main: the array test and the loop over the accounts, then batchTest.
MainValidate ==
    /\ mainPc = "validate"
    /\ IF ~IsArray \/ Len(accounts) = 0
       THEN ExitOne
       ELSE IF \E k \in 1..Len(accounts) : Incomplete(accounts[k])
       THEN ExitOne
       ELSE mainPc' = "chunking" /\ UNCHANGED exitCode
    /\ UNCHANGED <<configContent, lines, i, accounts, BatchState>>

\* testAccountViaCLI(account, options), called once for account a.
CallViaCLI(a) ==
    /\ variant = "via"
    /\ mainPc = "serving"
    /\ a \in 1..Len(accounts)
    /\ calls[a] = 0
    /\ \E ok \in BOOLEAN :
          probe' = [probe EXCEPT ![a][Sonnet4] = ViaSpawned(ok, a)]
    /\ calls' = [calls EXCEPT ![a] = 1]
    /\ UNCHANGED <<Fixed, accounts, parallel, mainPc, i, chunks, cur,
                   results, acct, finished, csvLatest, reportDir, exitCode>>

\* -------------------------------------------------------------- parseArgs

\* The most arguments of a command line.
MaxArgs == 3

S_timeoutFlag == <<"-", "-", "t", "i", "m", "e", "o", "u", "t">>

S_parallelFlag == <<"-", "-", "p", "a", "r", "a", "l", "l", "e", "l">>

S_verboseFlag == <<"-", "-", "v", "e", "r", "b", "o", "s", "e">>

S_webhookFlag ==
    <<"-", "-", "d", "i", "n", "g", "t", "a", "l", "k", "-", "w", "e", "b",
      "h", "o", "o", "k">>

S_secretFlag ==
    <<"-", "-", "d", "i", "n", "g", "t", "a", "l", "k", "-", "s", "e", "c",
      "r", "e", "t">>

S_atAllFlag ==
    <<"-", "-", "d", "i", "n", "g", "t", "a", "l", "k", "-", "a", "t", "-",
      "a", "l", "l">>

S_alwaysFlag ==
    <<"-", "-", "d", "i", "n", "g", "t", "a", "l", "k", "-", "a", "l", "w",
      "a", "y", "s">>

DecimalDigits == <<"0", "1", "2", "3", "4", "5", "6", "7", "8", "9">>

IsDigit(c) == \E d \in 1..10 : DecimalDigits[d] = c

DigitValue(c) == (CHOOSE d \in 1..10 : DecimalDigits[d] = c) - 1

\* The value of the decimal digits s starts with, after the value acc.
RECURSIVE DigitsValue(_, _)
DigitsValue(s, acc) ==
    IF s = <<>> \/ ~IsDigit(Head(s)) THEN acc
    ELSE DigitsValue(Tail(s), acc * 10 + DigitValue(Head(s)))

\* parseInt(str): leading white space, a sign, then digits up to the first
\* character that is none; NaN if there is no digit.
ParseInt(str) ==
    LET s == TrimStart(str)
        signed == s /= <<>> /\ Head(s) \in {"-", "+"}
        body == IF signed THEN Tail(s) ELSE s
    IN  IF body = <<>> \/ ~IsDigit(Head(body)) THEN NaN
        ELSE IF Head(s) = "-" THEN 0 - DigitsValue(body, 0)
        ELSE DigitsValue(body, 0)

\* String.prototype.startsWith
StartsWith(s, prefix) ==
    Len(s) >= Len(prefix) /\ SubSeq(s, 1, Len(prefix)) = prefix

\* args[i + 1] is truthy: there is a next argument and it is not empty.
HasValue(args, k) == k + 1 <= Len(args) /\ args[k + 1] /= <<>>

\* The for loop of parseArgs from args[k - 1] on (k counts from 1).
RECURSIVE ParseLoop(_, _, _)
ParseLoop(args, k, o) ==
    IF k > Len(args) THEN o
    ELSE IF args[k] = S_timeoutFlag /\ HasValue(args, k)
    THEN ParseLoop(args, k + 2, [o EXCEPT !.timeout = ParseInt(args[k + 1])])
    ELSE IF args[k] = S_parallelFlag /\ HasValue(args, k)
    THEN ParseLoop(args, k + 2, [o EXCEPT !.parallel = ParseInt(args[k + 1])])
    ELSE IF args[k] = S_verboseFlag
    THEN ParseLoop(args, k + 1, [o EXCEPT !.verbose = TRUE])
    ELSE IF args[k] = S_webhookFlag /\ HasValue(args, k)
    THEN ParseLoop(args, k + 2, [o EXCEPT !.dingTalkWebhook = args[k + 1]])
    ELSE IF args[k] = S_secretFlag /\ HasValue(args, k)
    THEN ParseLoop(args, k + 2, [o EXCEPT !.dingTalkSecret = args[k + 1]])
    ELSE IF args[k] = S_atAllFlag
    THEN ParseLoop(args, k + 1, [o EXCEPT !.dingTalkAtAll = TRUE])
    ELSE IF args[k] = S_alwaysFlag
    THEN ParseLoop(args, k + 1, [o EXCEPT !.dingTalkAlways = TRUE])
    ELSE IF ~StartsWith(args[k], <<"-", "-">>)
    THEN ParseLoop(args, k + 1, [o EXCEPT !.configFile = args[k]])
    ELSE ParseLoop(args, k + 1, o)

\* !options.dingTalkWebhook: null or the empty string
Falsy(str) == str = Null \/ str = <<>>

\* parseArgs after the loop: the DingTalk settings of the environment, for
\* what the options do not hold.
FromEnv(o, penv) ==
    [o EXCEPT !.dingTalkWebhook =
                  IF Falsy(@) /\ ~Falsy(penv.DINGTALK_WEBHOOK)
                                /\ penv.DINGTALK_WEBHOOK /= Unset
                  THEN penv.DINGTALK_WEBHOOK ELSE @,
              !.dingTalkSecret =
                  IF Falsy(@) /\ ~Falsy(penv.DINGTALK_SECRET)
                                /\ penv.DINGTALK_SECRET /= Unset
                  THEN penv.DINGTALK_SECRET ELSE @]

\* parseArgs
ParseArgs(args, penv) == FromEnv(ParseLoop(args, 1, DefaultOptions), penv)

\* The arguments a caller may give.
ArgSamples ==
    {S_configFile, S_parallelFlag, S_webhookFlag, GivenWebhook, S_alwaysFlag,
     <<"0">>, <<"2">>, <<"-", "1">>, <<"x">>}

\* main: const options = parseArgs(), which exits when no file was named.
MainParseArgs ==
    /\ mainPc = "start"
    /\ LET o == ParseLoop(argv, 1, DefaultOptions)
       IN  IF o.configFile = Null
           THEN ExitOne /\ UNCHANGED <<options, parallel>>
           ELSE /\ options' = FromEnv(o, processEnv)
                /\ parallel' = options'.parallel
                /\ mainPc' = "main"
                /\ UNCHANGED exitCode
    /\ UNCHANGED <<variant, configContent, lines, processEnv, env, sh, argv,
                   dingTalk, accounts, i, chunks, cur, results, acct, probe,
                   calls, finished, csvLatest, reportDir>>

\* ------------------------------------------------------------ web server

\* app.post('/api/validate'): testAccount(account) up to its first await.
PostValidate(a) ==
    /\ variant = "web"
    /\ mainPc = "serving"
    /\ a \in 1..Len(accounts)
    /\ acct[a].pc = "idle"
    /\ calls[a] = 0
    /\ \E ok \in BOOLEAN : Validate({a}, [x \in {a} |-> ok])
    /\ UNCHANGED <<Fixed, accounts, parallel, mainPc, i, chunks, cur,
                   results, finished, csvLatest, reportDir, exitCode>>

\* ------------------------------------------- check-claude-cli-simple.sh

\* The lines of an accounts file: two accounts, an account without a key,
\* a comment and an empty line.
ShLineSamples ==
    { <<"a", "|", "u", "1", "|", "s", "k", "1">>,
      <<"b", "|", "u", "2", "|", "s", "k", "2">>,
      <<"c", "|", "u", "3">>,
      <<"#", "x">>,
      <<>> }

\* Array.prototype.join(sep), which is how read glues the rest of a line
RECURSIVE Join(_, _)
Join(ss, sep) ==
    IF ss = <<>> THEN <<>>
    ELSE IF Len(ss) = 1 THEN Head(ss)
    ELSE Head(ss) \o <<sep>> \o Join(Tail(ss), sep)

\* IFS='|' read -r name url key: the last variable takes the rest
ShRead(line) ==
    LET parts == IF line = <<>> THEN <<>> ELSE Split(line, "|")
    IN  [name |-> IF Len(parts) >= 1 THEN parts[1] ELSE <<>>,
         url |-> IF Len(parts) >= 2 THEN parts[2] ELSE <<>>,
         key |-> IF Len(parts) >= 3
                 THEN Join(SubSeq(parts, 3, Len(parts)), "|") ELSE <<>>]

\* The shell before the script starts.  errexitArith: whether "set -e"
\* covers the (( )) command, which it does from bash 4.1 on.
NoShell ==
    [errexitArith |-> FALSE, TOTAL |-> 0, SUCCESS |-> 0, FAILED |-> 0,
     name |-> <<>>, url |-> <<>>, key |-> <<>>, validAccounts |-> <<>>,
     childEnv |-> NoEnv, children |-> 0]

\* What the pipeline "timeout 30s bash -c ... | claude" may give: an answer,
\* an answer that holds "error" or is empty, a nonzero status.
ShOutcomes == {"answer", "abnormal", "status"}

\* The exit status of ((n++)): 1 if the expression's value, n, is 0.
ArithStatus(n) == IF n = 0 THEN 1 ELSE 0

\* exit 1, or the end of the script by "set -e"
ShExit(code) ==
    /\ mainPc' = "exit"
    /\ exitCode' = code

ShIdle == <<variant, configContent, env, argv, options, dingTalk, accounts,
            parallel, chunks, cur,
            results, acct, probe, calls, finished, csvLatest, reportDir>>

\* One turn of the while loop up to the pipeline of test_account: read,
\* the skip of empty lines and comments, ((TOTAL++)), the two exports.
ShLoop ==
    /\ variant = "sh"
    /\ mainPc = "read"
    /\ i < Len(lines)
    /\ i' = i + 1
    /\ LET f == ShRead(lines[i + 1])
       IN  IF f.name = <<>> \/ Head(f.name) = "#"
           THEN UNCHANGED <<sh, processEnv, mainPc, exitCode>>
           ELSE IF sh.errexitArith /\ ArithStatus(sh.TOTAL) /= 0
           THEN /\ sh' = [sh EXCEPT !.TOTAL = @ + 1]
                /\ ShExit(1)
                /\ UNCHANGED processEnv
           ELSE /\ processEnv' = [processEnv EXCEPT !.ANTHROPIC_API_URL = f.url,
                                                    !.ANTHROPIC_API_KEY = f.key]
                /\ sh' = [sh EXCEPT !.TOTAL = @ + 1, !.name = f.name,
                                    !.url = f.url, !.key = f.key,
                                    !.childEnv = processEnv',
                                    !.children = @ + 1]
                /\ mainPc' = "test"
                /\ UNCHANGED exitCode
    /\ UNCHANGED <<lines, ShIdle>>

\* test_account after the pipeline, and the rest of the loop's turn.
ShTested ==
    /\ variant = "sh"
    /\ mainPc = "test"
    /\ \E outcome \in ShOutcomes :
          IF outcome = "answer"
          THEN /\ sh' = [sh EXCEPT !.validAccounts =
                                       Append(@, Join(<<sh.name, sh.url, sh.key>>, "|")),
                                   !.SUCCESS = @ + 1]
               /\ IF sh.errexitArith /\ ArithStatus(sh.SUCCESS) /= 0
                  THEN ShExit(1)
                  ELSE mainPc' = "read" /\ UNCHANGED exitCode
          ELSE /\ sh' = [sh EXCEPT !.FAILED = @ + 1]
               /\ ShExit(1)
    /\ UNCHANGED <<lines, processEnv, i, ShIdle>>

\* After the loop: the statistics and the exit status.
ShSummary ==
    /\ variant = "sh"
    /\ mainPc = "read"
    /\ ~(i < Len(lines))
    /\ ShExit(IF sh.FAILED > 0 THEN 1 ELSE 0)
    /\ UNCHANGED <<lines, processEnv, sh, i, ShIdle>>

\* ------------------------------------------- start-web.sh, stop-web.sh

\* for i in {1..5}: the turns of the loop that waits for the server to end.
WaitTurns == 5

\* The two scripts' view of the server: pidFile, whether web-server.pid
\* exists; alive, whether the process it names runs (kill -0 succeeds);
\* term and forced, whether this run of stop-web.sh has sent kill and
\* kill -9; waits, the "sleep 1" of the loop it has done; script, the
\* script that runs or ran last; found, whether stop-web.sh found the PID
\* file; runs, the scripts started so far.
NoServer ==
    [pidFile |-> FALSE, alive |-> FALSE, term |-> FALSE, forced |-> FALSE,
     waits |-> 0, script |-> "none", found |-> FALSE, runs |-> 0]

WebIdle == <<variant, configContent, lines, processEnv, env, argv, options,
             dingTalk, accounts, parallel, chunks, cur, results, acct, probe,
             calls, finished, csvLatest, reportDir>>

\* The operator runs ./start-web.sh or ./stop-web.sh once no script runs.
RunScript ==
    /\ variant = "scripts"
    /\ mainPc \in {"idle", "exit"}
    /\ sh.runs < MaxRuns
    /\ \E script \in {"start-web", "stop-web"} :
          /\ sh' = [sh EXCEPT !.script = script, !.runs = @ + 1,
                              !.term = FALSE, !.forced = FALSE, !.waits = 0,
                              !.found = FALSE]
          /\ mainPc' = script
    /\ i' = 0
    /\ exitCode' = -1
    /\ UNCHANGED WebIdle

\* The server process ends: by a signal, by a crash, or by itself.
ServerEnds ==
    /\ variant = "scripts"
    /\ sh.alive
    /\ sh' = [sh EXCEPT !.alive = FALSE]
    /\ UNCHANGED <<WebIdle, mainPc, i, exitCode>>

\* start-web.sh up to "sleep 3": it gives up if port 3001 is taken, and
\* otherwise starts the server and writes its PID.
StartLaunch ==
    /\ variant = "scripts"
    /\ mainPc = "start-web"
    /\ IF sh.alive
       THEN /\ ShExit(1)
            /\ UNCHANGED sh
       ELSE /\ sh' = [sh EXCEPT !.alive = TRUE, !.pidFile = TRUE]
            /\ mainPc' = "started"
            /\ UNCHANGED exitCode
    /\ UNCHANGED <<WebIdle, i>>

\* start-web.sh after "sleep 3": kill -0 $WEB_PID
StartCheck ==
    /\ variant = "scripts"
    /\ mainPc = "started"
    /\ ShExit(IF sh.alive THEN 0 ELSE 1)
    /\ UNCHANGED <<WebIdle, sh, i>>

\* stop-web.sh up to the loop: without a PID file pkill and exit 0; with
\* one, kill -0 and, if the process runs, kill.
StopBegin ==
    /\ variant = "scripts"
    /\ mainPc = "stop-web"
    /\ IF ~sh.pidFile
       THEN /\ sh' = [sh EXCEPT !.term = sh.alive]
            /\ ShExit(0)
            /\ UNCHANGED i
       ELSE IF sh.alive
       THEN /\ sh' = [sh EXCEPT !.found = TRUE, !.term = TRUE]
            /\ mainPc' = "wait"
            /\ i' = 1
            /\ UNCHANGED exitCode
       ELSE /\ sh' = [sh EXCEPT !.found = TRUE]
            /\ mainPc' = "clean"
            /\ UNCHANGED <<i, exitCode>>
    /\ UNCHANGED WebIdle

\* One turn of "for i in {1..5}": break if the process is gone, sleep 1
\* otherwise.
StopWait ==
    /\ variant = "scripts"
    /\ mainPc = "wait"
    /\ IF ~sh.alive
       THEN /\ mainPc' = "after"
            /\ UNCHANGED <<sh, i>>
       ELSE /\ sh' = [sh EXCEPT !.waits = @ + 1]
            /\ IF i < WaitTurns
               THEN i' = i + 1 /\ UNCHANGED mainPc
               ELSE mainPc' = "after" /\ UNCHANGED i
    /\ UNCHANGED <<WebIdle, exitCode>>

\* A faulty test, which takes the process for running whatever kill -0
\* says: the conditions of the forced kill (C34) must not survive it.
ForceAlways(alive) == TRUE

\* if kill -0 $WEB_PID 2>/dev/null (after the loop)
ForceDue(alive) == alive

\* After the loop: kill -9 if the process still runs.
StopForce ==
    /\ variant = "scripts"
    /\ mainPc = "after"
    /\ IF ForceDue(sh.alive)
       THEN /\ sh' = [sh EXCEPT !.forced = TRUE]
            /\ mainPc' = "forced"
       ELSE /\ mainPc' = "clean"
            /\ UNCHANGED sh
    /\ UNCHANGED <<WebIdle, i, exitCode>>

\* After kill -9 and "sleep 1": exit 1 if the process still runs.
StopVerify ==
    /\ variant = "scripts"
    /\ mainPc = "forced"
    /\ IF ~sh.alive
       THEN mainPc' = "clean" /\ UNCHANGED exitCode
       ELSE ShExit(1)
    /\ UNCHANGED <<WebIdle, sh, i>>

\* rm -f web-server.pid, and the end of the script.
StopClean ==
    /\ variant = "scripts"
    /\ mainPc = "clean"
    /\ sh' = [sh EXCEPT !.pidFile = FALSE]
    /\ ShExit(0)
    /\ UNCHANGED <<WebIdle, i>>

\* ------------------------------------------------------- specifications

InitCommon ==
    /\ configContent = NoConfig
    /\ lines = <<>>
    /\ processEnv = AmbientEnv
    /\ sh = NoShell
    /\ argv = <<S_configFile>>
    /\ dingTalk = NoDingTalk
    /\ i = 0
    /\ chunks = <<>>
    /\ cur = 0
    /\ results = <<>>
    /\ acct = [a \in AccountIds |-> NewAccount]
    /\ probe = [a \in AccountIds |-> [m \in Models |-> NoProbe]]
    /\ calls = [a \in AccountIds |-> 0]
    /\ finished = <<>>
    /\ csvLatest = <<>>
    /\ reportDir = NoReports
    /\ exitCode = -1

\* main() has read and validated the accounts and calls batchTest.
InitCli ==
    /\ variant = "cli"
    /\ \/ /\ env = "paced"
          /\ \E n \in 1..MaxAccounts : accounts = [k \in 1..n |-> k]
          /\ parallel \in 1..MaxParallel
          /\ options = [DefaultOptions EXCEPT !.configFile = S_configFile,
                                              !.parallel = parallel]
       \/ /\ env = "free"
          /\ accounts = <<1>>
          /\ parallel = 1
          /\ options \in OptionSamples
    /\ mainPc = "chunking"
    /\ InitCommon

\* The web server listens; one request will come.
InitWeb ==
    /\ variant = "web"
    /\ env = "free"
    /\ accounts = <<1>>
    /\ parallel = 1
    /\ options = DefaultOptions
    /\ mainPc = "serving"
    /\ InitCommon

Init == InitCli \/ InitWeb

Next ==
    \/ BuildChunk
    \/ BuildDone
    \/ ChunkStart
    \/ ChunkJoin
    \/ BatchReturn
    \/ MainReport
    \/ MainNotify
    \/ OnResponseEnd
    \/ OnRequestError
    \/ OnRequestTimeout
    \/ MainExit
    \/ \E a \in AccountIds : PostValidate(a)
    \/ \E a \in AccountIds : ResumeSonnet(a)
    \/ \E a \in AccountIds : ResumeOpus(a)
    \/ \E a \in AccountIds, m \in Models : OnStdoutData(a, m)
    \/ \E a \in AccountIds, m \in Models : OnStderrData(a, m)
    \/ \E a \in AccountIds, m \in Models : ChildExit(a, m)
    \/ \E a \in AccountIds, m \in Models : OnClose(a, m)
    \/ \E a \in AccountIds, m \in Models : OnError(a, m)
    \/ \E a \in AccountIds, m \in Models : OnTimeout(a, m)
    \/ \E a \in AccountIds, m \in Models : OnStdinTimer(a, m)

Spec == Init /\ [][Next]_vars

\* What may follow --parallel on the command line: a count, zero, a
\* negative number, a word.
ParallelArgs == {<<"2">>, <<"0">>, <<"-", "1">>, <<"x">>}

\* main() calls batchTest with the options parseArgs made of such a command
\* line.
InitParallel ==
    /\ variant = "cli"
    /\ env = "paced"
    /\ configContent = NoConfig
    /\ lines = <<>>
    /\ processEnv = AmbientEnv
    /\ sh = NoShell
    /\ \E v \in ParallelArgs : argv = <<S_configFile, S_parallelFlag, v>>
    /\ options = ParseArgs(argv, processEnv)
    /\ parallel = options.parallel
    /\ dingTalk = NoDingTalk
    /\ \E n \in 1..MaxAccounts : accounts = [k \in 1..n |-> k]
    /\ mainPc = "chunking"
    /\ i = 0
    /\ chunks = <<>>
    /\ cur = 0
    /\ results = <<>>
    /\ acct = [a \in AccountIds |-> NewAccount]
    /\ probe = [a \in AccountIds |-> [m \in Models |-> NoProbe]]
    /\ calls = [a \in AccountIds |-> 0]
    /\ finished = <<>>
    /\ csvLatest = <<>>
    /\ reportDir = NoReports
    /\ exitCode = -1

NextParallel ==
    \/ BuildChunk
    \/ BuildDone
    \/ ChunkStart
    \/ ChunkJoin
    \/ BatchReturn
    \/ MainReport
    \/ MainNotify
    \/ OnResponseEnd
    \/ MainExit
    \/ \E a \in AccountIds : ResumeSonnet(a)
    \/ \E a \in AccountIds : ResumeOpus(a)
    \/ \E a \in AccountIds, m \in Models : OnStdoutData(a, m)
    \/ \E a \in AccountIds, m \in Models : OnStderrData(a, m)
    \/ \E a \in AccountIds, m \in Models : ChildExit(a, m)
    \/ \E a \in AccountIds, m \in Models : OnClose(a, m)
    \/ \E a \in AccountIds, m \in Models : OnError(a, m)
    \/ \E a \in AccountIds, m \in Models : OnTimeout(a, m)
    \/ \E a \in AccountIds, m \in Models : OnStdinTimer(a, m)

SpecParallel == InitParallel /\ [][NextParallel]_vars

\* The first run of the script in a directory that holds no report.
InitSave ==
    /\ variant = "cli"
    /\ env = "paced"
    /\ accounts = <<1>>
    /\ parallel = 1
    /\ options = [DefaultOptions EXCEPT !.configFile = S_configFile]
    /\ mainPc = "chunking"
    /\ InitCommon

\* run-check.sh, started by cron, runs the script again in the same
\* directory once the run before it has ended.
RunAgain ==
    /\ mainPc = "exit"
    /\ reportDir.runs < MaxRuns
    /\ mainPc' = "chunking"
    /\ i' = 0
    /\ chunks' = <<>>
    /\ cur' = 0
    /\ results' = <<>>
    /\ acct' = [a \in AccountIds |-> NewAccount]
    /\ probe' = [a \in AccountIds |-> [m \in Models |-> NoProbe]]
    /\ calls' = [a \in AccountIds |-> 0]
    /\ finished' = <<>>
    /\ dingTalk' = NoDingTalk
    /\ exitCode' = -1
    /\ UNCHANGED <<variant, configContent, lines, processEnv, env, sh, argv,
                   options, accounts, parallel, csvLatest, reportDir>>

NextSave ==
    \/ NextParallel
    \/ RunAgain

SpecSave == InitSave /\ [][NextSave]_vars

\* The server's directory before a script is run: with or without a PID
\* file, the server running or not.
InitScripts ==
    /\ variant = "scripts"
    /\ env = "free"
    /\ configContent = NoConfig
    /\ lines = <<>>
    /\ processEnv = AmbientEnv
    /\ sh \in {[NoServer EXCEPT !.pidFile = f, !.alive = r] : f, r \in BOOLEAN}
    /\ argv = <<>>
    /\ options = DefaultOptions
    /\ dingTalk = NoDingTalk
    /\ accounts = <<>>
    /\ parallel = 1
    /\ mainPc = "idle"
    /\ i = 0
    /\ chunks = <<>>
    /\ cur = 0
    /\ results = <<>>
    /\ acct = [a \in AccountIds |-> NewAccount]
    /\ probe = [a \in AccountIds |-> [m \in Models |-> NoProbe]]
    /\ calls = [a \in AccountIds |-> 0]
    /\ finished = <<>>
    /\ csvLatest = <<>>
    /\ reportDir = NoReports
    /\ exitCode = -1

NextScripts ==
    \/ RunScript
    \/ ServerEnds
    \/ StartLaunch
    \/ StartCheck
    \/ StopBegin
    \/ StopWait
    \/ StopForce
    \/ StopVerify
    \/ StopClean

SpecScripts == InitScripts /\ [][NextScripts]_vars

\* One account or one request, under every order of the events.
InitOne == Init /\ env = "free"

SpecOne == InitOne /\ [][Next]_vars

\* main from its start to the call of batchTest, for every configuration
\* file.
InitLoad ==
    /\ variant = "cli"
    /\ env = "free"
    /\ configContent \in ConfigFiles
    /\ lines = <<>>
    /\ processEnv = AmbientEnv
    /\ sh = NoShell
    /\ argv = <<S_configFile>>
    /\ options = DefaultOptions
    /\ dingTalk = NoDingTalk
    /\ accounts = <<>>
    /\ parallel = 1
    /\ mainPc = "main"
    /\ i = 0
    /\ chunks = <<>>
    /\ cur = 0
    /\ results = <<>>
    /\ acct = [a \in AccountIds |-> NewAccount]
    /\ probe = [a \in AccountIds |-> [m \in Models |-> NoProbe]]
    /\ calls = [a \in AccountIds |-> 0]
    /\ finished = <<>>
    /\ csvLatest = <<>>
    /\ reportDir = NoReports
    /\ exitCode = -1

NextLoad ==
    \/ MainRead
    \/ ParseLine
    \/ ParseDone
    \/ MainValidate

SpecLoad == InitLoad /\ [][NextLoad]_vars

\* What a child may have written to stdout when it ends: nothing, an
\* answer, white space only, a padded answer, the word error in three
\* spellings, a status number.
OutputSamples ==
    { <<>>, <<"o", "k">>, <<"\n">>, <<" ", "o", "k", "\n">>,
      S_Error, S_error, <<"E", "R", "R", "O", "R">>, S_401 }

\* A message one character longer than the detail may be.
LongMessage == [k \in 1..(DetailLimit + 1) |-> "x"]

\* What it may have written to stderr.
ErrorOutputSamples ==
    { <<>>, S_401, S_429, S_403, S_network, S_model, <<"x">>,
      S_error, <<"E", "R", "R", "O", "R">>, LongMessage }

\* testSingleModel when its child has ended and 'close' is due: the
\* question was sent, the timeout is armed.
Exited(v, code, output, errorOutput) ==
    [SpawnedFor(v, TRUE, 1, Sonnet4) EXCEPT !.child = "exited", !.code = code,
                             !.output = output, !.errorOutput = errorOutput,
                             !.stdinTimer = FALSE, !.stdin = "destroyed"]

\* The Sonnet 4 probe of one account at the end of its child, for every
\* exit code and every content of the two buffers.
InitClose ==
    /\ variant \in {"cli", "web"}
    /\ env = "free"
    /\ configContent = NoConfig
    /\ lines = <<>>
    /\ processEnv = AmbientEnv
    /\ sh = NoShell
    /\ argv = <<S_configFile>>
    /\ options = DefaultOptions
    /\ dingTalk = NoDingTalk
    /\ accounts = <<1>>
    /\ parallel = 1
    /\ mainPc = IF variant = "cli" THEN "await" ELSE "serving"
    /\ i = IF variant = "cli" THEN 1 ELSE 0
    /\ chunks = IF variant = "cli" THEN <<<<1>>>> ELSE <<>>
    /\ cur = IF variant = "cli" THEN 1 ELSE 0
    /\ results = <<>>
    /\ acct = [a \in AccountIds |->
                 IF a = 1 THEN [NewAccount EXCEPT !.pc = Sonnet4] ELSE NewAccount]
    /\ \E code \in ExitCodes, output \in OutputSamples,
          errorOutput \in ErrorOutputSamples :
          probe = [a \in AccountIds |->
                     [m \in Models |->
                        IF a = 1 /\ m = Sonnet4
                        THEN Exited(variant, code, output, errorOutput)
                        ELSE NoProbe]]
    /\ calls = [a \in AccountIds |-> IF a = 1 THEN 1 ELSE 0]
    /\ finished = <<>>
    /\ csvLatest = <<>>
    /\ reportDir = NoReports
    /\ exitCode = -1

NextClose ==
    \/ \E a \in AccountIds, m \in Models : OnClose(a, m)
    \/ \E a \in AccountIds, m \in Models : OnTimeout(a, m)

SpecClose == InitClose /\ [][NextClose]_vars

\* Response times on both sides of every threshold of the rating, and at
\* the two ends of what a probe can take.
ClockSamples == {StdinDelayMs, 2999, 3000, 7999, 8000, 14999, 15000, TimeoutMs}

\* The same probe, 'close' reading the clock at each of these times.
NextSpeed ==
    \/ \E a \in AccountIds, m \in Models, t \in ClockSamples : OnCloseAt(a, m, t)
    \/ \E a \in AccountIds, m \in Models : OnTimeout(a, m)

SpecSpeed == InitClose /\ [][NextSpeed]_vars

\* The script has found the accounts file and the claude command.
InitSh ==
    /\ variant = "sh"
    /\ env = "free"
    /\ configContent = NoConfig
    /\ lines \in SeqsUpTo(ShLineSamples, MaxLines)
    /\ processEnv = AmbientEnv
    /\ sh \in {[NoShell EXCEPT !.errexitArith = b] : b \in BOOLEAN}
    /\ argv = <<S_configFile>>
    /\ options = DefaultOptions
    /\ dingTalk = NoDingTalk
    /\ accounts = <<>>
    /\ parallel = 1
    /\ mainPc = "read"
    /\ i = 0
    /\ chunks = <<>>
    /\ cur = 0
    /\ results = <<>>
    /\ acct = [a \in AccountIds |-> NewAccount]
    /\ probe = [a \in AccountIds |-> [m \in Models |-> NoProbe]]
    /\ calls = [a \in AccountIds |-> 0]
    /\ finished = <<>>
    /\ csvLatest = <<>>
    /\ reportDir = NoReports
    /\ exitCode = -1

NextSh == ShLoop \/ ShTested \/ ShSummary

SpecSh == InitSh /\ [][NextSh]_vars

\* main() is about to call parseArgs.
InitArgs ==
    /\ variant = "cli"
    /\ env = "free"
    /\ configContent = NoConfig
    /\ lines = <<>>
    /\ processEnv \in {AmbientEnv,
                        [AmbientEnv EXCEPT !.DINGTALK_WEBHOOK = EnvWebhook]}
    /\ sh = NoShell
    /\ argv \in SeqsUpTo(ArgSamples, MaxArgs)
    /\ options = DefaultOptions
    /\ dingTalk = NoDingTalk
    /\ accounts = <<>>
    /\ parallel = 1
    /\ mainPc = "start"
    /\ i = 0
    /\ chunks = <<>>
    /\ cur = 0
    /\ results = <<>>
    /\ acct = [a \in AccountIds |-> NewAccount]
    /\ probe = [a \in AccountIds |-> [m \in Models |-> NoProbe]]
    /\ calls = [a \in AccountIds |-> 0]
    /\ finished = <<>>
    /\ csvLatest = <<>>
    /\ reportDir = NoReports
    /\ exitCode = -1

NextArgs == MainParseArgs

SpecArgs == InitArgs /\ [][NextArgs]_vars

\* testAccountViaCLI is called for each of two accounts, at any time;
\* every order of the events.
InitVia ==
    /\ variant = "via"
    /\ env = "free"
    /\ accounts = <<1, 2>>
    /\ parallel = 1
    /\ options = DefaultOptions
    /\ mainPc = "serving"
    /\ InitCommon

NextVia ==
    \/ \E a \in AccountIds : CallViaCLI(a)
    \/ \E a \in AccountIds, m \in Models : OnStdoutData(a, m)
    \/ \E a \in AccountIds, m \in Models : OnStderrData(a, m)
    \/ \E a \in AccountIds, m \in Models : ChildExit(a, m)
    \/ \E a \in AccountIds, m \in Models : OnClose(a, m)
    \/ \E a \in AccountIds, m \in Models : OnError(a, m)
    \/ \E a \in AccountIds, m \in Models : OnTimeout(a, m)
    \/ \E a \in AccountIds, m \in Models : OnStdinTimer(a, m)

SpecVia == InitVia /\ [][NextVia]_vars

\* ----------------------------------------------------------- properties

\* The probes that were started.
Probes == {pm \in AccountIds \X Models : probe[pm[1]][pm[2]].spawns > 0}

\* The accounts of the input list.
Inputs == 1..Len(accounts)

\* The validation of account a has returned its overallResult.
Returned(a) == acct[a].pc = "done"

\* C1: a probe is resolved at most once, in both programs and for every
\* order of the timeout callback, 'close' and 'error': resolve is called at
\* most once, and once it was called no handler changes the result object
\* the promise was settled with.
C1_ResolvedAtMostOnce ==
    \A pm \in Probes :
        LET pr == probe[pm[1]][pm[2]]
        IN  /\ pr.resolveCalls <= 1
            /\ pr.hasResponded <=> pr.resolveCalls = 1
            /\ pr.resolveCalls = 1 => pr.result = pr.settled

\* C1's case: the timeout callback resolved the probe at the boundary (the
\* elapsed time equals the timeout), and the 'close' handler of the child
\* has run after it.
C1_CloseAfterTimeout ==
    \E pm \in Probes :
        LET pr == probe[pm[1]][pm[2]]
        IN  /\ pr.child = "closed"
            /\ pr.resolveCalls = 1
            /\ pr.settled.errorType = "timeout"
            /\ pr.settled.responseTime = TimeoutMs

\* C2: no probe hangs: as long as a started probe has not resolved, its
\* timeout is armed in a process that is alive to run it (so the probe
\* resolves as soon as the timer is allowed to fire), in both programs and
\* also when the child could not be launched.
C2_UnresolvedProbeHasLiveTimer ==
    \A pm \in Probes :
        LET pr == probe[pm[1]][pm[2]]
        IN  pr.resolveCalls = 0 => pr.timer /\ mainPc \notin {"crashed", "exit"}

\* C3: in every returned result the Opus 4.1 probe is skipped if and only
\* if the Sonnet 4 probe did not succeed, and no child was ever spawned for
\* a skipped probe.
C3_SkippedIffPrimaryFailed ==
    \A a \in AccountIds :
        /\ Returned(a) =>
              (ProbeOf(a, Opus41).status = "skipped"
                  <=> ProbeOf(a, Sonnet4).status /= "success")
        /\ acct[a].opus41 = "skipped" =>
              probe[a][Opus41].spawns = 0 /\ probe[a][Opus41].child = "none"

\* C3's case: an account whose Sonnet 4 probe failed has returned, with
\* Opus 4.1 skipped.
C3_SkippedAfterFailure ==
    \E a \in AccountIds :
        /\ Returned(a)
        /\ ProbeOf(a, Sonnet4).status = "failed"
        /\ ProbeOf(a, Opus41).status = "skipped"

\* C4: in every returned result overallStatus follows from the two probe
\* statuses: (success, success) both_success, (success, failed)
\* sonnet_only, (failed, skipped) both_failed; there is no other pair and
\* no overallStatus 'testing'.
C4_OverallStatusTable ==
    \A a \in AccountIds :
        Returned(a) =>
            LET pair == <<ProbeOf(a, Sonnet4).status, ProbeOf(a, Opus41).status>>
            IN  \/ pair = <<"success", "success">>
                   /\ acct[a].overallStatus = "both_success"
                \/ pair = <<"success", "failed">>
                   /\ acct[a].overallStatus = "sonnet_only"
                \/ pair = <<"failed", "skipped">>
                   /\ acct[a].overallStatus = "both_failed"

\* C4's case: three accounts have returned, one with each overallStatus.
C4_AllThreeOutcomes ==
    \E a, b, c \in AccountIds :
        /\ Returned(a) /\ acct[a].overallStatus = "both_success"
        /\ Returned(b) /\ acct[b].overallStatus = "sonnet_only"
        /\ Returned(c) /\ acct[c].overallStatus = "both_failed"

\* The child of probe (a, m) is a live process.
Alive(a, m) == probe[a][m].child = "running"

\* C5: the two probes of an account never overlap: the Opus 4.1 child is
\* spawned only when the Sonnet 4 probe has resolved and its child has
\* ended, so the two children of an account are never alive together.
C5_OneChildPerAccount ==
    \A a \in AccountIds :
        /\ ~(Alive(a, Sonnet4) /\ Alive(a, Opus41))
        /\ probe[a][Opus41].spawns > 0 =>
              /\ Settled(a, Sonnet4)
              /\ probe[a][Sonnet4].child = "closed"

\* C5's case: the Opus 4.1 child of an account is alive, after its Sonnet 4
\* child.
C5_SecondChildAlive ==
    \E a \in AccountIds :
        /\ Alive(a, Opus41)
        /\ probe[a][Sonnet4].spawns > 0
        /\ ~Alive(a, Sonnet4)

\* The children that are alive.
AliveChildren == {pm \in AccountIds \X Models : Alive(pm[1], pm[2])}

\* C6: during batchTest at most options.parallel children are alive at
\* every instant, for every order of exits and timeouts.
C6_AtMostParallelAlive ==
    variant = "cli" => Cardinality(AliveChildren) <= parallel

\* The accounts of chunk c.
Members(c) == {chunks[c][k] : k \in 1..Len(chunks[c])}

\* C7: no probe of an account of a chunk is started before every
\* validation of the chunk before it has returned.
C7_ChunkAfterChunk ==
    \A c \in 1..(Len(chunks) - 1) :
        (\E a \in Members(c + 1) : calls[a] > 0 \/ probe[a][Sonnet4].spawns > 0)
            => \A b \in Members(c) : Returned(b)

\* C7's case: a probe of the second chunk runs, and the first chunk of two
\* accounts completed in the other order than the input's.
C7_SecondChunkStarted ==
    /\ Len(chunks) >= 2
    /\ cur = 2
    /\ \E a \in Members(2) : Alive(a, Sonnet4)
    /\ Len(chunks[1]) = 2
    /\ \A b \in Members(1) : Returned(b)

\* C8: the results batchTest returns and the rows saveResults writes are in
\* the order of the input: the k-th belongs to the k-th account, whatever
\* the order the validations completed in.
C8_InputOrder ==
    /\ \A k \in 1..Len(results) : k \in Inputs /\ results[k] = accounts[k]
    /\ mainPc \in {"report", "notify", "exit"} => Len(results) = Len(accounts)
    /\ mainPc \in {"notify", "exit"} =>
          /\ Len(csvLatest) = Len(accounts)
          /\ \A k \in Inputs : csvLatest[k] = CsvRow(accounts[k])

\* C8's case: the run has ended with parallel > 1, and the accounts of the
\* last chunk did not complete in the order of the input.
C8_CompletedOutOfOrder ==
    /\ mainPc = "exit"
    /\ parallel > 1
    /\ Len(finished) > 1
    /\ finished /= chunks[cur]
    /\ Len(csvLatest) = Len(accounts)

\* C9: the chunks are the input list cut into consecutive pieces of
\* options.parallel accounts, the last one possibly shorter; every account
\* is validated exactly once and the result list has one entry for each.
C9_Partition ==
    /\ mainPc /= "chunking" /\ variant = "cli" =>
          /\ Flatten(chunks) = accounts
          /\ \A c \in 1..Len(chunks) :
                /\ Len(chunks[c]) >= 1
                /\ Len(chunks[c]) <= parallel
                /\ c < Len(chunks) => Len(chunks[c]) = parallel
    /\ \A a \in AccountIds : calls[a] <= 1
    /\ mainPc \in {"report", "notify", "exit"} =>
          /\ \A a \in Inputs : calls[a] = 1 /\ Returned(a)
          /\ Len(results) = Len(accounts)

\* C9's case: the run has ended, there were several chunks and the last
\* one was shorter than options.parallel.
C9_ShortLastChunk ==
    /\ mainPc = "exit"
    /\ Len(chunks) >= 2
    /\ Len(chunks[Len(chunks)]) < parallel
    /\ Len(results) = Len(accounts)

\* The Sonnet 4 probe of account a failed with errorType et.
FailedWith(a, et) ==
    /\ ProbeOf(a, Sonnet4).status = "failed"
    /\ ProbeOf(a, Sonnet4).errorType = et

\* C10: a failed probe (timeout, classified failure, launch failure) never
\* aborts the batch: the process does not die, the run can always go on
\* until it exits, the failure is recorded in the account's result, and
\* at the end every account has been validated and is in the results and in
\* the report.
C10_FailureNeverAborts ==
    variant = "cli" =>
        /\ mainPc /= "crashed"
        /\ mainPc /= "exit" => ENABLED Next
        /\ \A a \in AccountIds :
              Returned(a) /\ ProbeOf(a, Sonnet4).status /= "success" =>
                  /\ ProbeOf(a, Sonnet4).status = "failed"
                  /\ ProbeOf(a, Sonnet4).errorType /= "undefined"
                  /\ ProbeOf(a, Sonnet4).error /= Null
                  /\ acct[a].overallStatus = "both_failed"
        /\ mainPc = "exit" =>
              \A k \in Inputs :
                  /\ calls[accounts[k]] = 1
                  /\ results[k] = accounts[k]
                  /\ csvLatest[k].name = accounts[k]

\* C10's case: the run has ended; the first account timed out, the second
\* could not launch its child, the third was refused, and all three are
\* reported.
C10_ThreeFailuresReported ==
    /\ mainPc = "exit"
    /\ Len(accounts) >= 3
    /\ FailedWith(1, "timeout")
    /\ FailedWith(2, "launch-failed")
    /\ FailedWith(3, "auth-failed")
    /\ Len(csvLatest) = Len(accounts)

\* The records of a CSV file: its data lines that are not blank.
DataLines(text) ==
    SelectSeq(Tail(Split(Trim(text), "\n")), LAMBDA l : Trim(l) /= <<>>)

\* A data line that lacks a name, a url or a key.
MalformedLine(l) ==
    LET parts == Split(Trim(l), ",")
    IN  \/ Len(parts) < 3
        \/ \E k \in 1..3 : Trim(parts[k]) = <<>>

\* The file cannot be read or parsed, holds no account, or holds a record
\* without name, url or key.
BadInput ==
    CASE configContent.ext \in {"missing", "unreadable"} -> TRUE
      [] configContent.ext = ".csv" ->
            LET ls == DataLines(configContent.text)
            IN  ls = <<>> \/ \E k \in 1..Len(ls) : MalformedLine(ls[k])
      [] configContent.ext = ".json" ->
            LET v == configContent.value
            IN  \/ configContent.parse /= "array"
                \/ v = <<>>
                \/ \E k \in 1..Len(v) : Incomplete(v[k])
      [] OTHER -> FALSE

\* C11: with an input that is unreadable, unparseable, empty or holds a
\* malformed record, main never calls batchTest (no probe is spawned) and
\* every exit before batchTest has a nonzero code; no malformed record is
\* dropped while the others go on to be probed.
C11_BadInputAborts ==
    /\ BadInput => mainPc /= "chunking"
    /\ BadInput /\ mainPc = "exit" => exitCode /= 0
    /\ BadInput => \A a \in AccountIds, m \in Models : probe[a][m].spawns = 0

\* The step is the timeout callback of probe (a, m).
TimeoutStep(a, m) ==
    /\ probe[a][m].timer
    /\ ~probe'[a][m].timer
    /\ probe'[a][m].child = probe[a][m].child

\* The step is the 'close' handler of probe (a, m).
CloseStep(a, m) ==
    /\ probe[a][m].child \in {"exited", "errored"}
    /\ probe'[a][m].child = "closed"

\* The step is the 'error' handler of probe (a, m).
ErrorStep(a, m) ==
    /\ probe[a][m].child = "failed"
    /\ probe'[a][m].child = "errored"

\* C12: when the timeout callback runs before the child's exit was handled
\* (the probe is unresolved), it signals the child if it is alive and
\* resolves the probe as failed with errorType timeout and the elapsed
\* time; a probe that the 'close' or the 'error' handler resolves never has
\* errorType timeout.
C12_TimeoutPath ==
    [][\A a \in AccountIds, m \in Models :
          /\ TimeoutStep(a, m) /\ ~probe[a][m].hasResponded =>
                /\ probe[a][m].child = "running" => probe'[a][m].signalled
                /\ probe'[a][m].resolveCalls = 1
                /\ probe'[a][m].settled.status = "failed"
                /\ probe'[a][m].settled.errorType = "timeout"
                /\ probe'[a][m].settled.responseTime >= TimeoutMs
          /\ (CloseStep(a, m) \/ ErrorStep(a, m)) /\ ~probe[a][m].hasResponded =>
                /\ probe'[a][m].resolveCalls = 1
                /\ probe'[a][m].settled.errorType /= "timeout"
      ]_vars

\* C12's case: a probe was resolved by its timeout, and its child, still
\* alive, has been signalled.
C12_TimedOutAndSignalled ==
    \E pm \in Probes :
        LET pr == probe[pm[1]][pm[2]]
        IN  /\ pr.settled.errorType = "timeout"
            /\ pr.child = "running"
            /\ pr.signalled

\* C13: a child that was signalled by the timeout path is waited for: when
\* the run ends, no child is left alive.
C13_NoChildLeftAlive ==
    variant = "cli" /\ mainPc = "exit" => AliveChildren = {}

\* C14: when the child cannot be launched, the 'error' handler resolves the
\* probe as failed with errorType launch-failed and the system's message,
\* and the 'close' that follows the 'error' leaves that result as it is.
C14_LaunchFailed ==
    [][\A a \in AccountIds, m \in Models :
          variant = "cli" =>
              /\ ErrorStep(a, m) =>
                    /\ probe'[a][m].resolveCalls = 1
                    /\ probe'[a][m].settled.status = "failed"
                    /\ probe'[a][m].settled.errorType = "launch-failed"
                    /\ probe'[a][m].settled.error[2] = SpawnError
              /\ CloseStep(a, m) /\ probe[a][m].child = "errored" =>
                    /\ probe'[a][m].resolveCalls = 1
                    /\ probe'[a][m].result = probe[a][m].result
                    /\ probe'[a][m].result.errorType = "launch-failed"
      ]_vars

\* C14's case: 'close' has been handled for a child that could not be
\* launched.
C14_ClosedAfterLaunchFailure ==
    \E pm \in Probes :
        LET pr == probe[pm[1]][pm[2]]
        IN  /\ variant = "cli"
            /\ pr.child = "closed"
            /\ pr.settled.errorType = "launch-failed"

\* The step is the 'close' handler of probe (a, m) resolving the probe: the
\* child ended by itself before the timeout.
ExitResolves(a, m) ==
    /\ probe[a][m].child = "exited"
    /\ ~probe[a][m].hasResponded
    /\ probe'[a][m].child = "closed"

\* s contains the word error in any letter case.
MentionsError(s) == Includes(ToLowerCase(s), S_error)

\* C15: on the child's exit before the timeout the status is success if and
\* only if the exit code is 0, stdout is not empty and neither stdout nor
\* stderr contains "error" in any letter case; otherwise it is failed.
C15_SuccessIff ==
    [][\A a \in AccountIds, m \in Models :
          ExitResolves(a, m) =>
              /\ probe'[a][m].settled.status \in {"success", "failed"}
              /\ probe'[a][m].settled.status = "success" <=>
                    /\ probe[a][m].code = "0"
                    /\ probe[a][m].output /= <<>>
                    /\ ~MentionsError(probe[a][m].output)
                    /\ ~MentionsError(probe[a][m].errorOutput)
      ]_vars

\* The error kind the priority list gives for an exit code and stderr
\* followed by stdout.
KindByPriority(code, combined) ==
    CASE \/ Includes(combined, S_authentication)
         \/ Includes(combined, S_unauthorized)
         \/ Includes(combined, S_401) -> "auth-failed"
      [] Includes(combined, S_ratelimit) \/ Includes(combined, S_429) ->
            "rate-limited"
      [] Includes(combined, S_permission) \/ Includes(combined, S_403) ->
            "forbidden"
      [] Includes(combined, S_connection) \/ Includes(combined, S_network) ->
            "network-error"
      [] Includes(combined, S_model) \/ Includes(combined, S_notfound) ->
            "model-unavailable"
      [] code /= "0" -> "cli-error"
      [] OTHER -> "unknown"

\* C16: a failed exit gets the first error kind of the priority list that
\* matches stderr followed by stdout: auth-failed, rate-limited, forbidden,
\* network-error, model-unavailable, then cli-error for a nonzero exit code,
\* else unknown.
C16_KindByPriority ==
    [][\A a \in AccountIds, m \in Models :
          ExitResolves(a, m) /\ probe'[a][m].settled.status = "failed" =>
              probe'[a][m].settled.errorType =
                  KindByPriority(probe[a][m].code,
                                 probe[a][m].errorOutput \o probe[a][m].output)
      ]_vars

\* p is a prefix of s.
IsPrefix(p, s) == Len(p) <= Len(s) /\ SubSeq(s, 1, Len(p)) = p

\* C17: a resolved result with status success has no errorType and a
\* response that is not empty, at most 200 characters long and a prefix of
\* the trimmed stdout; a resolved result with status failed has an
\* errorType.
C17_ResultShape ==
    [][\A a \in AccountIds, m \in Models :
          probe[a][m].resolveCalls = 0 /\ probe'[a][m].resolveCalls = 1 =>
              LET r == probe'[a][m].settled
              IN  /\ r.status \in {"success", "failed"}
                  /\ r.status = "success" =>
                        /\ r.errorType = "undefined"
                        /\ r.response /= Null
                        /\ r.response /= <<>>
                        /\ Len(r.response) <= PreviewLimit
                        /\ IsPrefix(r.response, Trim(probe[a][m].output))
                  /\ r.status = "failed" => r.errorType /= "undefined"
      ]_vars

\* The step calls claude.stdin.write for probe (a, m).
WriteStep(a, m) == probe'[a][m].stdinWrites > probe[a][m].stdinWrites

\* C18: the question is written at most once; it is not written once the
\* probe has resolved (the 'close' of a child that ended has resolved it),
\* and the callback neither ends the process nor touches a resolved result.
C18_WriteOnlyWhileUnresolved ==
    [][\A a \in AccountIds, m \in Models :
          /\ probe'[a][m].stdinWrites <= 1
          /\ WriteStep(a, m) => ~probe[a][m].hasResponded
          /\ probe[a][m].stdinTimer /\ ~probe'[a][m].stdinTimer =>
                /\ mainPc' = mainPc
                /\ probe'[a][m].result = probe[a][m].result
                /\ probe'[a][m].resolveCalls = probe[a][m].resolveCalls
      ]_vars

\* C19: spawning a probe leaves the process-wide environment as the
\* program found it, and the environment of every child that was spawned is
\* a copy of it plus the endpoint and the key of the child's own account
\* (and of no other account).
C19_EnvironmentUntouched ==
    /\ processEnv = AmbientEnv
    /\ \A a \in AccountIds, m \in Models :
          probe[a][m].spawns > 0 =>
              /\ probe[a][m].env = [AmbientEnv EXCEPT
                                      !.ANTHROPIC_BASE_URL = Url(a),
                                      !.ANTHROPIC_API_KEY = Key(a)]
              /\ \A b \in AccountIds \ {a} :
                    /\ probe[a][m].env.ANTHROPIC_BASE_URL /= Url(b)
                    /\ probe[a][m].env.ANTHROPIC_API_KEY /= Key(b)
    /\ sh.children > 0 =>
          sh.childEnv = [AmbientEnv EXCEPT !.ANTHROPIC_API_URL = sh.url,
                                           !.ANTHROPIC_API_KEY = sh.key]

\* C20: nothing the program hands to the outside holds the whole key of an
\* account: no field of a row of the CSV report, no argument of a child.
C20_NoFullCredentialSurfaced ==
    \A a \in Inputs :
        /\ \A k \in 1..Len(csvLatest) :
              /\ ~Includes(csvLatest[k].url, Key(a))
              /\ ~Includes(csvLatest[k].key, Key(a))
        /\ \A b \in AccountIds, m \in Models :
              \A j \in 1..Len(probe[b][m].args) :
                  ~Includes(probe[b][m].args[j], Key(a))

\* The overallStatus values of the accounts of the run.
Statuses == {acct[accounts[k]].overallStatus : k \in Inputs}

C22_NotifiedIffFailuresOrAlways ==
    variant = "cli" /\ mainPc \in {"notify", "exit"} /\ dingTalk.pc /= "idle" =>
        LET failures == Statuses \cap {"both_failed", "sonnet_only"} /= {}
        IN  /\ dingTalk.requests > 0 => options.dingTalkAlways \/ failures
            /\ (options.dingTalkAlways \/ failures)
                  /\ options.dingTalkWebhook \notin {NoWebhook, MalformedWebhook}
                  => dingTalk.requests = 1 /\ dingTalk.url = options.dingTalkWebhook

\* C22's case: --dingtalk-always, every account supports both models, and
\* the "all passed" message went to the webhook.
C22_AlwaysWithoutFailures ==
    /\ mainPc = "exit"
    /\ options.dingTalkAlways
    /\ Statuses = {"both_success"}
    /\ dingTalk.requests = 1
    /\ dingTalk.message.title = "all passed"

\* The ways a delivery fails: the webhook's errcode, a response that is no
\* JSON, a network error, the request's timeout, a webhook that is no URL.
DeliveryFailures == {"errmsg", "parse", "network", "timeout", "build"}

\* A step of the notification leaves the results, the accounts' outcomes,
\* the saved report and the exit status alone; the step after a failed
\* delivery is the exit, with the status the results call for.
SwallowStep ==
    /\ dingTalk' /= dingTalk =>
          /\ results' = results
          /\ acct' = acct
          /\ csvLatest' = csvLatest
          /\ exitCode' = exitCode
    /\ mainPc = "notify" /\ ~dingTalk.result.success =>
          /\ mainPc' = "exit"
          /\ exitCode' = (IF "both_failed" \in Statuses THEN 1 ELSE 0)
          /\ results' = results
          /\ csvLatest' = csvLatest

RECURSIVE WebhookArg(_, _, _)
WebhookArg(args, k, given) ==
    IF k > Len(args) THEN given
    ELSE IF args[k] \in {S_timeoutFlag, S_parallelFlag, S_webhookFlag,
                         S_secretFlag} /\ HasValue(args, k)
    THEN WebhookArg(args, k + 2,
                    IF args[k] = S_webhookFlag THEN args[k + 1] ELSE given)
    ELSE WebhookArg(args, k + 1, given)

\* C24: the webhook parseArgs returns is the one of the command line if it
\* names one, else the one of DINGTALK_WEBHOOK if the environment has it,
\* else the default of the source.
C24_WebhookPrecedence ==
    mainPc = "main" =>
        options.dingTalkWebhook =
            IF WebhookArg(argv, 1, Null) /= Null THEN WebhookArg(argv, 1, Null)
            ELSE IF processEnv.DINGTALK_WEBHOOK /= Unset
            THEN processEnv.DINGTALK_WEBHOOK
            ELSE DefaultWebhook

\* C25: once the promise of a probe has been resolved, no handler changes
\* the status, the error or the elapsed time of the result it resolved
\* with.
C25_ResultFrozenOnceResolved ==
    [][\A a \in AccountIds, m \in Models :
          probe[a][m].resolveCalls > 0 /\ probe'[a][m].resolveCalls > 0 =>
              /\ probe'[a][m].result.status = probe[a][m].result.status
              /\ probe'[a][m].result.error = probe[a][m].result.error
              /\ probe'[a][m].result.responseTime =
                     probe[a][m].result.responseTime]_vars

\* C26: the summary generateReport computes from the results adds up: the
\* three counts sum to total, which is the number of results; Sonnet 4
\* succeeded for both_success + sonnet_only accounts, Opus 4.1 for
\* both_success accounts.
C26_SummaryAddsUp ==
    variant = "cli" /\ mainPc \in {"report", "notify", "exit"} =>
        LET stats == Stats(results)
        IN  /\ stats.total = Len(results)
            /\ stats.both_success + stats.sonnet_only + stats.both_failed
                  = stats.total
            /\ ModelSuccess(results, Sonnet4)
                  = stats.both_success + stats.sonnet_only
            /\ ModelSuccess(results, Opus41) = stats.both_success

\* C26's case: a report over one account of each overall status.
C26_OneOfEach ==
    /\ mainPc = "report"
    /\ Stats(results) = [total |-> 3, both_success |-> 1, sonnet_only |-> 1,
                         both_failed |-> 1]

C28_DetailWithinLimit ==
    [][\A a \in AccountIds, m \in Models :
          probe[a][m].resolveCalls = 0 /\ probe'[a][m].resolveCalls = 1 =>
              LET r == probe'[a][m].settled
                  combinedError == probe[a][m].errorOutput \o probe[a][m].output
              IN  r.status = "failed" =>
                    /\ Len(r.error) <= DetailLimit
                    /\ r.errorType = "unknown" /\ Trim(combinedError) /= <<>> =>
                          r.error \in
                              {Substring(combinedError, 0, DetailLimit),
                               Substring(Trim(combinedError), 0, DetailLimit)}
      ]_vars

\* C29: the batch script ends with status 0 only if every model test of
\* every account passed; an account with a failed model test, also one
\* where Sonnet 4 alone passed, makes the status nonzero.
C29_ZeroOnlyIfAllPassed ==
    variant = "cli" /\ mainPc = "exit" /\ exitCode = 0 =>
        \A k \in 1..Len(results), m \in Models :
            ProbeOf(results[k], m).status = "success"

\* The accounts that have a result.
Tested == {results[k] : k \in 1..Len(results)}

\* C30: whatever number parseArgs made of --parallel, every iteration of
\* the loop that builds the chunks moves i towards the end of the list or
\* ends the loop (so there are at most as many chunks as accounts),
\* and the results batchTest returns hold every account.
C30_ChunkingEndsWithAllAccounts ==
    /\ [](Len(chunks) <= Len(accounts))
    /\ [][mainPc = "chunking" /\ mainPc' = "chunking" => i' = NaN \/ i' > i]_vars
    /\ [](mainPc = "report" => Tested = {accounts[k] : k \in 1..Len(accounts)})

\* The step is the timeout callback of probe (a, m) calling claude.kill().
KillStep(a, m) ==
    /\ probe[a][m].timer /\ ~probe'[a][m].timer
    /\ ~probe[a][m].hasResponded /\ probe'[a][m].hasResponded
    /\ probe'[a][m].child = probe[a][m].child

\* 'close' or 'error' of probe (a, m) has been handled.
EndHandled(a, m) == probe[a][m].child \in {"closed", "errored"}

\* C31: once 'close' or 'error' of a probe's child has been handled the
\* timeout timer is no longer armed, and the timeout callback never calls
\* kill() for such a child.
C31_NoKillAfterEndHandled ==
    /\ [](\A a \in AccountIds, m \in Models :
             EndHandled(a, m) => ~probe[a][m].timer)
    /\ [][\A a \in AccountIds, m \in Models :
             KillStep(a, m) => ~EndHandled(a, m)]_vars

\* C31's case: 'close' was handled before the timeout ran, the probe
\* resolved with what 'close' found and the timer is cancelled.
C31_ClosedBeforeTimeout ==
    \E a \in AccountIds, m \in Models :
        /\ probe[a][m].child = "closed"
        /\ probe[a][m].resolveCalls = 1
        /\ probe[a][m].settled.errorType /= "timeout"
        /\ ~probe[a][m].timer

\* The step is saveResults of a run.
SaveStep == reportDir'.runs = reportDir.runs + 1

Testable ==
    {k \in 1..Len(lines) :
        LET f == ShRead(lines[k])
        IN  f.name /= <<>> /\ Head(f.name) /= "#"}

\* C33: when the shell script has ended it has tested every line of the
\* accounts file that is neither empty nor a comment, whatever the earlier
\* accounts gave; TOTAL = SUCCESS + FAILED; the valid-accounts file has
\* one line per success; the exit status is 1 if FAILED > 0 and 0
\* otherwise.
C33_EveryLineTested ==
    variant = "sh" /\ mainPc = "exit" =>
        /\ sh.children = Cardinality(Testable)
        /\ sh.TOTAL = Cardinality(Testable)
        /\ sh.TOTAL = sh.SUCCESS + sh.FAILED
        /\ Len(sh.validAccounts) = sh.SUCCESS
        /\ exitCode = IF sh.FAILED > 0 THEN 1 ELSE 0

\* stop-web.sh runs, or has ended, and found the PID file when it started.
StopFound == variant = "scripts" /\ sh.script = "stop-web" /\ sh.found

\* C34: stop-web.sh, started with a PID file present, sends kill -9 only
\* after kill and five waits of one second, the process running at each
\* test; it ends with status 0, the process gone and the PID file removed,
\* or with status 1 and the PID file in place.
C34_ForcedKillLast ==
    /\ [](StopFound /\ sh.forced => sh.term /\ sh.waits = 5)
    /\ [][StopFound' /\ ~sh.forced /\ sh'.forced => sh.alive]_vars
    /\ [](StopFound /\ mainPc = "exit" =>
             \/ exitCode = 0 /\ ~sh.alive /\ ~sh.pidFile
             \/ exitCode = 1 /\ sh.pidFile)

\* C34's case: the script has ended with status 0 after the forced kill.
C34_StoppedByForce ==
    /\ StopFound
    /\ mainPc = "exit"
    /\ exitCode = 0
    /\ sh.forced

====
